---- MODULE Spec2Model ----
(***************************************************************************)
(* Model of the pocky trading-game core: the game reducer                  *)
(* (domain/src/game/state.rs, ticker.rs), the store-backed game service    *)
(* (application/src/ports/in_/game_service.rs) and the repository-backed   *)
(* scheduler (adapters/src/tokio_scheduler.rs).                            *)
(***************************************************************************)
EXTENDS Integers, Sequences, FiniteSets, Bags, TLC

VARIABLES
    game,      \* the GameState held by the store / repository (one game)
    launched,  \* has LaunchGame inserted the game into the store
    calls,     \* in-flight service calls (player commands, woken delayed actions)
    sleeping,  \* bag of delayed actions whose tokio task is still sleeping
    notifying, \* bag of spawned notify_player tasks not yet delivered (the player notified)
    done       \* counters of the scheduled chain: successful Ticks and Ends

vars == <<game, launched, calls, sleeping, notifying, done>>

----------------------------------------------------------------------------
(* Bounds of the model *)

NumPlayers == 2
MaxValue == 2            \* order values range over -1..MaxValue
MaxMarketEvents == 2     \* placements and fills explored per game (two forces each)
MaxDurationSteps == 2    \* game_duration in 0..MaxDurationSteps quarter seconds
MaxIntervalSteps == 2    \* tick_interval in 1..MaxIntervalSteps quarter seconds
CountdownSecs == 1       \* config.countdown_duration, in seconds
SvcMaxValue == 1         \* order values of the service-level player commands: 1..SvcMaxValue
StartingBalance == 1     \* config.starting_balance of the modelled games
StartingPrice == 1       \* config.starting_price of the modelled games
MaxPriceDelta == 1       \* config.max_price_delta of the modelled games

(* Program constants *)

DurationStep == 250      \* ms; the default tick_interval

PlayerIds == 1..NumPlayers
Stranger == NumPlayers + 1   \* a PlayerId that is not a player of the game
Values == (-1)..MaxValue

----------------------------------------------------------------------------
(* Generic sequence helpers *)

RECURSIVE SumSeq(_)
SumSeq(s) == IF s = <<>> THEN 0 ELSE Head(s) + SumSeq(Tail(s))

Reverse(s) == [i \in 1..Len(s) |-> s[Len(s) + 1 - i]]

RemoveAt(s, i) == SubSeq(s, 1, i - 1) \o SubSeq(s, i + 1, Len(s))

\* Vec::iter().position(|x| x == v): the first index holding v, 0 for None
Position(s, v) ==
    IF \E i \in 1..Len(s) : s[i] = v
    THEN CHOOSE i \in 1..Len(s) : s[i] = v /\ \A j \in 1..(i - 1) : s[j] # v
    ELSE 0

Max(a, b) == IF a >= b THEN a ELSE b

\* Rust's `as i32` on a quotient n/d (d > 0): truncation toward zero
TruncDiv(n, d) == IF n >= 0 THEN n \div d ELSE -((-n) \div d)

----------------------------------------------------------------------------
(* Rationals <<n, d>> with d > 0, standing for the f32 factors of the       *)
(* market-force model (pressure, volatility, decay strength).              *)

RECURSIVE GCD(_, _)
GCD(a, b) == IF b = 0 THEN a ELSE GCD(b, a % b)

Abs(x) == IF x < 0 THEN -x ELSE x

NormQ(q) ==
    LET g == GCD(Abs(q[1]), q[2])
    IN  IF q[1] = 0 THEN <<0, 1>> ELSE <<q[1] \div g, q[2] \div g>>

AddQ(p, q) ==
    LET g == GCD(p[2], q[2])
        l == (p[2] \div g) * q[2]
    IN  NormQ(<<p[1] * (l \div p[2]) + q[1] * (l \div q[2]), l>>)

MulQ(p, q) == NormQ(<<p[1] * q[1], p[2] * q[2]>>)

----------------------------------------------------------------------------
(* Market-force ticker: domain/src/game/ticker.rs *)

\* Decay::linear(ticks)
Decay_linear(ticks) == [kind |-> "Linear", remaining |-> ticks, initial |-> ticks]

\* Decay::strength, as a rational
Decay_strength(d) ==
    CASE d.kind = "Instant" -> <<1, 1>>
      [] d.kind = "Duration" -> IF d.remaining > 0 THEN <<1, 1>> ELSE <<0, 1>>
      [] d.kind = "Linear" ->
            IF d.initial = 0 THEN <<0, 1>> ELSE NormQ(<<d.remaining, d.initial>>)

\* Decay::tick: the decay after one step (remaining.saturating_sub(1))
Decay_tick(d) ==
    CASE d.kind = "Instant" -> d
      [] d.kind = "Duration" -> [d EXCEPT !.remaining = Max(d.remaining - 1, 0)]
      [] d.kind = "Linear" -> [d EXCEPT !.remaining = Max(d.remaining - 1, 0)]

\* MarketForce::new
MarketForce(pressure, volatility, decay) ==
    [pressure |-> pressure, volatility |-> volatility, decay |-> decay]

effective_pressure_of(f) == MulQ(f.pressure, Decay_strength(f.decay))
effective_volatility_of(f) == MulQ(f.volatility, Decay_strength(f.decay))

\* Ticker::new
Ticker_new(base_volatility) ==
    [base_volatility |-> base_volatility, base_pressure |-> 0, forces |-> <<>>]

\* Ticker::add_force
add_force(t, pressure, volatility, decay) ==
    [t EXCEPT !.forces = Append(@, MarketForce(pressure, volatility, decay))]

RECURSIVE SumPressure(_)
SumPressure(fs) ==
    IF fs = <<>> THEN <<0, 1>>
    ELSE AddQ(effective_pressure_of(Head(fs)), SumPressure(Tail(fs)))

RECURSIVE SumVolatility(_)
SumVolatility(fs) ==
    IF fs = <<>> THEN <<0, 1>>
    ELSE AddQ(effective_volatility_of(Head(fs)), SumVolatility(Tail(fs)))

\* Ticker::compute_conditions
compute_conditions(t) ==
    [pressure |-> SumPressure(t.forces), volatility |-> SumVolatility(t.forces)]

\* the two locals of Ticker::next_delta
effective_volatility(t) ==
    LET c == compute_conditions(t).volatility
    IN  t.base_volatility + TruncDiv(c[1] * t.base_volatility, c[2])

effective_pressure(t) ==
    LET c == compute_conditions(t).pressure
    IN  t.base_pressure + TruncDiv(c[1] * t.base_volatility, c[2])

\* Ticker::next_delta, with draw the value rng.gen_range(-V..=V) returned
next_delta(t, draw) == draw + effective_pressure(t)

\* the draws gen_range(-V..=V) can return for ticker t
Draws(t) == (-effective_volatility(t))..effective_volatility(t)

\* Ticker::tick without the retain: every aged force stays
Ticker_tick_keeps_all(t) ==
    [t EXCEPT !.forces = [i \in 1..Len(t.forces) |->
                            [t.forces[i] EXCEPT !.decay = Decay_tick(@)]]]

\* Ticker::tick: age every force, then drop those of strength 0
Ticker_tick(t) ==
    LET aged == [i \in 1..Len(t.forces) |->
                    [t.forces[i] EXCEPT !.decay = Decay_tick(@)]]
    IN  [t EXCEPT !.forces = SelectSeq(aged, LAMBDA f : Decay_strength(f.decay)[1] > 0)]

on_bid_placed(t, bid_value) ==
    add_force(add_force(t, NormQ(<<bid_value, 800>>), <<0, 1>>, Decay_linear(5)),
              NormQ(<<-bid_value, 3000>>), <<0, 1>>, Decay_linear(20))

on_ask_placed(t, ask_value) ==
    add_force(add_force(t, NormQ(<<-ask_value, 800>>), <<0, 1>>, Decay_linear(5)),
              NormQ(<<ask_value, 3000>>), <<0, 1>>, Decay_linear(20))

on_bid_filled(t, filled_at) ==
    add_force(add_force(t, NormQ(<<-filled_at, 1000>>), <<2, 25>>, Decay_linear(4)),
              NormQ(<<filled_at, 2640>>), <<0, 1>>, Decay_linear(18))

on_ask_filled(t, filled_at) ==
    add_force(add_force(t, NormQ(<<filled_at, 1000>>), <<2, 25>>, Decay_linear(4)),
              NormQ(<<-filled_at, 2640>>), <<0, 1>>, Decay_linear(18))

\* PlayerTicker::new
PlayerTicker_new(base_volatility, starting_price) ==
    [ticker |-> Ticker_new(base_volatility), current_price |-> starting_price]

\* PlayerTicker::tick
\* PlayerTicker::tick drawing the delta before the forces are aged
PlayerTicker_tick_draw_first(pt, draw) ==
    [ticker |-> Ticker_tick(pt.ticker),
     current_price |-> Max(pt.current_price + next_delta(pt.ticker, draw), 0)]

PlayerTicker_tick(pt, draw) ==
    LET t == Ticker_tick(pt.ticker)
    IN  [ticker |-> t, current_price |-> Max(pt.current_price + next_delta(t, draw), 0)]

----------------------------------------------------------------------------
(* Game reducer: domain/src/game/state.rs                                  *)
(* A handler is an operator from the state (and its inputs) to the record  *)
(* [err, game, effects]: game is the state the &mut self is left in, also  *)
(* when the handler returns Err.  HashMap iteration is modelled in         *)
(* ascending PlayerId order.                                               *)

Keys == [i \in 1..NumPlayers |-> i]

NoError == [type |-> "Ok"]

InvalidPhase(action, phase) == [type |-> "InvalidPhase", action |-> action, phase |-> phase]
InsufficientFunds(available, required) ==
    [type |-> "InsufficientFunds", available |-> available, required |-> required]
InsufficientShares(available, required) ==
    [type |-> "InsufficientShares", available |-> available, required |-> required]
PlayerNotFound(pid) == [type |-> "PlayerNotFound", player_id |-> pid]
OrderNotFound(order_type, price) ==
    [type |-> "OrderNotFound", order_type |-> order_type, price |-> price]

Notification(pid, event) == [kind |-> "Notification", player_id |-> pid, event |-> event]
DelayedAction(delay, action) == [kind |-> "DelayedAction", delay |-> delay, action |-> action]

Ok(g, effects) == [err |-> NoError, game |-> g, effects |-> effects]
Err(g, e) == [err |-> e, game |-> g, effects |-> <<>>]

\* one Notification of event per player (players.keys().map(...))
NotifyAll(event) == [i \in 1..NumPlayers |-> Notification(Keys[i], event)]

RECURSIVE Flatten(_)
Flatten(ss) == IF ss = <<>> THEN <<>> ELSE Head(ss) \o Flatten(Tail(ss))

\* PlayerState::new
PlayerState_new(starting_cash) ==
    [cash |-> starting_cash, shares |-> <<>>, open_bids |-> <<>>, open_asks |-> <<>>]

\* PlayerState::available_cash
available_cash(st) == st.cash - SumSeq(st.open_bids)

\* an available_shares that does not count the open asks
available_shares_ignoring_open_asks(st) == Len(st.shares)

\* PlayerState::available_shares
available_shares(st) == Max(Len(st.shares) - Len(st.open_asks), 0)

\* net_worth with the cash committed to open bids taken off
net_worth_less_open_bids(st, current_price) ==
    available_cash(st) + Len(st.shares) * current_price

\* PlayerState::net_worth
net_worth(st, current_price) == st.cash + Len(st.shares) * current_price

\* GameState::new
GameState_new(config) ==
    [phase |-> "Pending",
     config |-> config,
     players |-> [p \in PlayerIds |-> PlayerState_new(config.starting_balance)],
     player_tickers |-> [p \in PlayerIds |-> PlayerTicker_new(config.max_price_delta, 0)],
     ticks_remaining |-> config.game_duration \div config.tick_interval]

\* GameState::launch: the effects returned beside GameState::new
launch_effects(config) ==
    LET countdown_seconds == config.countdown_duration \div 1000
    IN  [k \in 1..countdown_seconds |->
            DelayedAction(1000 * (k - 1),
                          [type |-> "Countdown", remaining |-> countdown_seconds + 1 - k])]
        \o <<DelayedAction(config.countdown_duration, [type |-> "Start"])>>

\* GameState::require_phase: the error, or NoError
require_phase(g, required, action) ==
    IF g.phase # required THEN InvalidPhase(action, g.phase) ELSE NoError

\* player_prices.get(pid).copied().unwrap_or(0)
PriceOf(g, pid) ==
    IF pid \in DOMAIN g.player_tickers THEN g.player_tickers[pid].current_price ELSE 0

\* GameState::handle_countdown
handle_countdown(g, remaining) ==
    Ok(g, NotifyAll([type |-> "Countdown", remaining |-> remaining]))

\* handle_start without its phase gate
handle_start_any_phase(g) ==
    LET g1 == [g EXCEPT !.phase = "Running",
                        !.player_tickers =
                            [p \in PlayerIds |->
                                [@[p] EXCEPT !.current_price = g.config.starting_price]]]
    IN  Ok(g1, <<DelayedAction(g.config.tick_interval, [type |-> "Tick"])>>)

\* handle_start leaving the tickers at the price GameState::new gave them
handle_start_keeps_prices(g) ==
    LET e == require_phase(g, "Pending", "Start")
        started == NotifyAll([type |-> "GameStarted",
                              starting_price |-> g.config.starting_price,
                              starting_balance |-> g.config.starting_balance,
                              players |-> Keys,
                              game_duration_secs |-> g.config.game_duration \div 1000])
    IN  IF e # NoError THEN Err(g, e)
        ELSE Ok([g EXCEPT !.phase = "Running"],
                started \o <<DelayedAction(g.config.tick_interval, [type |-> "Tick"])>>)

\* GameState::handle_start
handle_start(g) ==
    LET e == require_phase(g, "Pending", "Start")
        starting_price == g.config.starting_price
        g1 == [g EXCEPT !.phase = "Running",
                        !.player_tickers =
                            [p \in PlayerIds |-> [@[p] EXCEPT !.current_price = starting_price]]]
        started == NotifyAll([type |-> "GameStarted",
                              starting_price |-> starting_price,
                              starting_balance |-> g.config.starting_balance,
                              players |-> Keys,
                              game_duration_secs |-> g.config.game_duration \div 1000])
    IN  IF e # NoError THEN Err(g, e)
        ELSE Ok(g1, started \o <<DelayedAction(g.config.tick_interval, [type |-> "Tick"])>>)

\* the indices i (ascending) of orders with Test(orders[i])
FilledIndices(orders, Test(_)) ==
    SelectSeq([i \in 1..Len(orders) |-> i], LAMBDA i : Test(orders[i]))

\* a fill loop of resolve_bids that charges the bid value instead of the price
RECURSIVE FillBids_charges_bid_value(_, _, _, _)
FillBids_charges_bid_value(pid, st, idxs, current_price) ==
    IF idxs = <<>> THEN [state |-> st, resolved |-> <<>>]
    ELSE LET i == Head(idxs)
             bid_value == st.open_bids[i]
             st1 == [st EXCEPT !.open_bids = RemoveAt(@, i),
                               !.shares = Append(@, current_price),
                               !.cash = @ - bid_value]
             rest == FillBids_charges_bid_value(pid, st1, Tail(idxs), current_price)
         IN  [state |-> rest.state, resolved |-> <<<<pid, bid_value>>>> \o rest.resolved]

\* resolve_bids, inner loop: `for i in filled_indices.into_iter().rev()`
RECURSIVE FillBids(_, _, _, _)
FillBids(pid, st, idxs, current_price) ==
    IF idxs = <<>> THEN [state |-> st, resolved |-> <<>>]
    ELSE LET i == Head(idxs)
             bid_value == st.open_bids[i]
             st1 == [st EXCEPT !.open_bids = RemoveAt(@, i),
                               !.shares = Append(@, current_price),
                               !.cash = @ - current_price]
             rest == FillBids(pid, st1, Tail(idxs), current_price)
         IN  [state |-> rest.state, resolved |-> <<<<pid, bid_value>>>> \o rest.resolved]

\* a fill loop of resolve_asks that pays the price and leaves the share with the seller
RECURSIVE FillAsks_keeps_share(_, _, _, _)
FillAsks_keeps_share(pid, st, idxs, current_price) ==
    IF idxs = <<>> THEN [state |-> st, resolved |-> <<>>]
    ELSE LET i == Head(idxs)
             ask_value == st.open_asks[i]
             st1 == [st EXCEPT !.open_asks = RemoveAt(@, i),
                               !.cash = @ + current_price]
             rest == FillAsks_keeps_share(pid, st1, Tail(idxs), current_price)
         IN  [state |-> rest.state, resolved |-> <<<<pid, ask_value>>>> \o rest.resolved]

\* resolve_asks, inner loop
RECURSIVE FillAsks(_, _, _, _)
FillAsks(pid, st, idxs, current_price) ==
    IF idxs = <<>> THEN [state |-> st, resolved |-> <<>>]
    ELSE LET i == Head(idxs)
             ask_value == st.open_asks[i]
             st1 == [st EXCEPT !.open_asks = RemoveAt(@, i),
                               !.shares = IF @ # <<>> THEN SubSeq(@, 1, Len(@) - 1) ELSE @,
                               !.cash = @ + current_price]
             rest == FillAsks(pid, st1, Tail(idxs), current_price)
         IN  [state |-> rest.state, resolved |-> <<<<pid, ask_value>>>> \o rest.resolved]

\* resolve_bids, second loop, for one ticker: on_bid_filled per resolved entry
RECURSIVE ApplyBidFills(_, _, _)
ApplyBidFills(g, t, resolved) ==
    IF resolved = <<>> THEN t
    ELSE ApplyBidFills(g, on_bid_filled(t, PriceOf(g, Head(resolved)[1])), Tail(resolved))

\* resolve_asks, second loop, for one ticker: on_ask_filled per resolved entry
RECURSIVE ApplyAskFills(_, _, _)
ApplyAskFills(g, t, resolved) ==
    IF resolved = <<>> THEN t
    ELSE ApplyAskFills(g, on_ask_filled(t, PriceOf(g, Head(resolved)[1])), Tail(resolved))

\* GameState::resolve_bids: [game, resolved]
resolve_bids(g) ==
    LET per(p) == FillBids(p, g.players[p],
                           Reverse(FilledIndices(g.players[p].open_bids,
                                                 LAMBDA bid : bid >= PriceOf(g, p))),
                           PriceOf(g, p))
        resolved == Flatten([i \in 1..NumPlayers |-> per(Keys[i]).resolved])
    IN  [game |-> [g EXCEPT !.players = [p \in PlayerIds |-> per(p).state],
                            !.player_tickers =
                                [p \in PlayerIds |->
                                    [@[p] EXCEPT !.ticker =
                                        ApplyBidFills(g, @, resolved)]]],
         resolved |-> resolved]

\* GameState::resolve_asks: [game, resolved]
resolve_asks(g) ==
    LET per(p) == FillAsks(p, g.players[p],
                           Reverse(FilledIndices(g.players[p].open_asks,
                                                 LAMBDA ask : ask <= PriceOf(g, p))),
                           PriceOf(g, p))
        resolved == Flatten([i \in 1..NumPlayers |-> per(Keys[i]).resolved])
    IN  [game |-> [g EXCEPT !.players = [p \in PlayerIds |-> per(p).state],
                            !.player_tickers =
                                [p \in PlayerIds |->
                                    [@[p] EXCEPT !.ticker =
                                        ApplyAskFills(g, @, resolved)]]],
         resolved |-> resolved]

\* a follow-up that is always another Tick
next_tick_effect_always_tick(g) == DelayedAction(g.config.tick_interval, [type |-> "Tick"])

\* the follow-up a successful Tick schedules (state.rs 234-243)
next_tick_effect(g) ==
    DelayedAction(g.config.tick_interval,
                  IF g.ticks_remaining = 0 THEN [type |-> "End"] ELSE [type |-> "Tick"])

\* handle_price_tick without its ticks_remaining check: an overshooting Tick goes through
handle_price_tick_overshoot_accepted(g, draw) ==
    IF g.phase # "Running" THEN Err(g, InvalidPhase("PriceTick", g.phase))
    ELSE Ok([g EXCEPT !.ticks_remaining = IF @ = 0 THEN 0 ELSE @ - 1],
            <<DelayedAction(g.config.tick_interval,
                            IF g.ticks_remaining <= 1 THEN [type |-> "End"] ELSE [type |-> "Tick"])>>)

\* handle_price_tick without the decrement of ticks_remaining
handle_price_tick_keeps_count(g, draw) ==
    LET e == require_phase(g, "Running", "PriceTick")
        g2 == [g EXCEPT !.player_tickers =
                            [p \in PlayerIds |-> PlayerTicker_tick(@[p], draw[p])]]
        rb == resolve_bids(g2)
        ra == resolve_asks(rb.game)
    IN  IF e # NoError THEN Err(g, e)
        ELSE IF g.ticks_remaining = 0 THEN Err(g, InvalidPhase("PriceTick", "Ended"))
        ELSE Ok(ra.game, <<next_tick_effect(ra.game)>>)

\* handle_price_tick chaining the follow-up first and the fills before the prices
handle_price_tick_follow_up_first(g, draw) ==
    LET e == require_phase(g, "Running", "PriceTick")
        g1 == [g EXCEPT !.ticks_remaining = @ - 1]
        g2 == [g1 EXCEPT !.player_tickers =
                            [p \in PlayerIds |-> PlayerTicker_tick(@[p], draw[p])]]
        rb == resolve_bids(g2)
        ra == resolve_asks(rb.game)
        g3 == ra.game
        price_notifications ==
            Flatten([i \in 1..NumPlayers |->
                [j \in 1..NumPlayers |->
                    Notification(Keys[i], [type |-> "PriceChanged",
                                           player_id |-> Keys[j],
                                           price |-> PriceOf(g3, Keys[j])])]])
        bid_notifications ==
            Flatten([k \in 1..Len(rb.resolved) |->
                NotifyAll([type |-> "BidFilled",
                           player_id |-> rb.resolved[k][1],
                           bid_value |-> rb.resolved[k][2]])])
        ask_notifications ==
            Flatten([k \in 1..Len(ra.resolved) |->
                NotifyAll([type |-> "AskFilled",
                           player_id |-> ra.resolved[k][1],
                           ask_value |-> ra.resolved[k][2]])])
    IN  IF e # NoError THEN Err(g, e)
        ELSE IF g.ticks_remaining = 0 THEN Err(g, InvalidPhase("PriceTick", "Ended"))
        ELSE Ok(g3, <<next_tick_effect(g3)>> \o ask_notifications \o bid_notifications
                    \o price_notifications)

\* GameState::handle_price_tick; draw[p] is the value gen_range returned for p's ticker
handle_price_tick(g, draw) ==
    LET e == require_phase(g, "Running", "PriceTick")
        g1 == [g EXCEPT !.ticks_remaining = @ - 1]
        g2 == [g1 EXCEPT !.player_tickers =
                            [p \in PlayerIds |-> PlayerTicker_tick(@[p], draw[p])]]
        rb == resolve_bids(g2)
        ra == resolve_asks(rb.game)
        g3 == ra.game
        price_notifications ==
            Flatten([i \in 1..NumPlayers |->
                [j \in 1..NumPlayers |->
                    Notification(Keys[i], [type |-> "PriceChanged",
                                           player_id |-> Keys[j],
                                           price |-> PriceOf(g3, Keys[j])])]])
        bid_notifications ==
            Flatten([k \in 1..Len(rb.resolved) |->
                NotifyAll([type |-> "BidFilled",
                           player_id |-> rb.resolved[k][1],
                           bid_value |-> rb.resolved[k][2]])])
        ask_notifications ==
            Flatten([k \in 1..Len(ra.resolved) |->
                NotifyAll([type |-> "AskFilled",
                           player_id |-> ra.resolved[k][1],
                           ask_value |-> ra.resolved[k][2]])])
    IN  IF e # NoError THEN Err(g, e)
        ELSE IF g.ticks_remaining = 0 THEN Err(g, InvalidPhase("PriceTick", "Ended"))
        ELSE Ok(g3, price_notifications \o bid_notifications \o ask_notifications
                    \o <<next_tick_effect(g3)>>)

\* handle_game_end without its phase gate
handle_game_end_any_phase(g) == Ok([g EXCEPT !.phase = "Ended"], <<>>)

\* GameState::handle_game_end
handle_game_end(g) ==
    LET e == require_phase(g, "Running", "End")
        final_balances ==
            [i \in 1..NumPlayers |->
                <<Keys[i], net_worth(g.players[Keys[i]], PriceOf(g, Keys[i]))>>]
    IN  IF e # NoError THEN Err(g, e)
        ELSE Ok([g EXCEPT !.phase = "Ended"],
                NotifyAll([type |-> "GameEnded", final_balances |-> final_balances]))

\* handle_bid pushing the bid before it checks the balance
handle_bid_push_first(g, player_id, bid_value) ==
    LET e == require_phase(g, "Running", "Bid")
        g1 == IF player_id \in DOMAIN g.players
              THEN [g EXCEPT !.players[player_id].open_bids = Append(@, bid_value)]
              ELSE g
        available_player_balance ==
            IF player_id \in DOMAIN g1.players THEN available_cash(g1.players[player_id]) ELSE 0
    IN  IF e # NoError THEN Err(g, e)
        ELSE IF available_player_balance < 0
             THEN Err(g1, InsufficientFunds(available_player_balance + bid_value, bid_value))
        ELSE Ok(g1, NotifyAll([type |-> "BidPlaced", player_id |-> player_id,
                               bid_value |-> bid_value]))

\* GameState::handle_bid
handle_bid(g, player_id, bid_value) ==
    LET e == require_phase(g, "Running", "Bid")
        available_player_balance ==
            IF player_id \in DOMAIN g.players THEN available_cash(g.players[player_id]) ELSE 0
        g1 == IF player_id \in DOMAIN g.players
              THEN [g EXCEPT !.players[player_id].open_bids = Append(@, bid_value)]
              ELSE g
        g2 == [g1 EXCEPT !.player_tickers =
                            [p \in PlayerIds |->
                                [@[p] EXCEPT !.ticker = on_bid_placed(@, bid_value)]]]
    IN  IF e # NoError THEN Err(g, e)
        ELSE IF bid_value > available_player_balance
             THEN Err(g, InsufficientFunds(available_player_balance, bid_value))
        ELSE Ok(g2, NotifyAll([type |-> "BidPlaced", player_id |-> player_id,
                               bid_value |-> bid_value]))

\* handle_ask accepting an ask without an uncommitted share
handle_ask_unchecked(g, player_id, ask_value) ==
    LET e == require_phase(g, "Running", "Ask")
        g1 == IF player_id \in DOMAIN g.players
              THEN [g EXCEPT !.players[player_id].open_asks = Append(@, ask_value)]
              ELSE g
        g2 == [g1 EXCEPT !.player_tickers =
                            [p \in PlayerIds |->
                                [@[p] EXCEPT !.ticker = on_ask_placed(@, ask_value)]]]
    IN  IF e # NoError THEN Err(g, e)
        ELSE Ok(g2, NotifyAll([type |-> "AskPlaced", player_id |-> player_id,
                               ask_value |-> ask_value]))

\* GameState::handle_ask
handle_ask(g, player_id, ask_value) ==
    LET e == require_phase(g, "Running", "Ask")
        player_shares_available ==
            IF player_id \in DOMAIN g.players THEN available_shares(g.players[player_id]) ELSE 0
        g1 == IF player_id \in DOMAIN g.players
              THEN [g EXCEPT !.players[player_id].open_asks = Append(@, ask_value)]
              ELSE g
        g2 == [g1 EXCEPT !.player_tickers =
                            [p \in PlayerIds |->
                                [@[p] EXCEPT !.ticker = on_ask_placed(@, ask_value)]]]
    IN  IF e # NoError THEN Err(g, e)
        ELSE IF player_shares_available = 0
             THEN Err(g, InsufficientShares(player_shares_available, 1))
        ELSE Ok(g2, NotifyAll([type |-> "AskPlaced", player_id |-> player_id,
                               ask_value |-> ask_value]))

\* handle_cancel_bid removing every open bid at the price instead of the first one
handle_cancel_bid_removes_all(g, player_id, price) ==
    LET e == require_phase(g, "Running", "CancelBid")
        idx == Position(g.players[player_id].open_bids, price)
    IN  IF e # NoError THEN Err(g, e)
        ELSE IF player_id \notin DOMAIN g.players THEN Err(g, PlayerNotFound(player_id))
        ELSE IF idx = 0 THEN Err(g, OrderNotFound("bid", price))
        ELSE Ok([g EXCEPT !.players[player_id].open_bids = SelectSeq(@, LAMBDA b : b # price)],
                NotifyAll([type |-> "BidCanceled", player_id |-> player_id, price |-> price]))

\* GameState::handle_cancel_bid
handle_cancel_bid(g, player_id, price) ==
    LET e == require_phase(g, "Running", "CancelBid")
        idx == Position(g.players[player_id].open_bids, price)
    IN  IF e # NoError THEN Err(g, e)
        ELSE IF player_id \notin DOMAIN g.players THEN Err(g, PlayerNotFound(player_id))
        ELSE IF idx = 0 THEN Err(g, OrderNotFound("bid", price))
        ELSE Ok([g EXCEPT !.players[player_id].open_bids = RemoveAt(@, idx)],
                NotifyAll([type |-> "BidCanceled", player_id |-> player_id, price |-> price]))

\* GameState::handle_cancel_ask
\* handle_cancel_ask calling the ticker hook of a placed ask
handle_cancel_ask_with_hook(g, player_id, price) ==
    LET e == require_phase(g, "Running", "CancelAsk")
        idx == Position(g.players[player_id].open_asks, price)
        g1 == [g EXCEPT !.players[player_id].open_asks = RemoveAt(@, idx)]
    IN  IF e # NoError THEN Err(g, e)
        ELSE IF player_id \notin DOMAIN g.players THEN Err(g, PlayerNotFound(player_id))
        ELSE IF idx = 0 THEN Err(g, OrderNotFound("ask", price))
        ELSE Ok([g1 EXCEPT !.player_tickers =
                            [p \in PlayerIds |->
                                [@[p] EXCEPT !.ticker = on_ask_placed(@, price)]]],
                NotifyAll([type |-> "AskCanceled", player_id |-> player_id, price |-> price]))

handle_cancel_ask(g, player_id, price) ==
    LET e == require_phase(g, "Running", "CancelAsk")
        idx == Position(g.players[player_id].open_asks, price)
    IN  IF e # NoError THEN Err(g, e)
        ELSE IF player_id \notin DOMAIN g.players THEN Err(g, PlayerNotFound(player_id))
        ELSE IF idx = 0 THEN Err(g, OrderNotFound("ask", price))
        ELSE Ok([g EXCEPT !.players[player_id].open_asks = RemoveAt(@, idx)],
                NotifyAll([type |-> "AskCanceled", player_id |-> player_id, price |-> price]))

\* GameState::process_action; draw is read by Tick only
process_action(g, action, draw) ==
    CASE action.type = "Countdown" -> handle_countdown(g, action.remaining)
      [] action.type = "Start" -> handle_start(g)
      [] action.type = "Tick" -> handle_price_tick(g, draw)
      [] action.type = "Bid" -> handle_bid(g, action.player_id, action.bid_value)
      [] action.type = "Ask" -> handle_ask(g, action.player_id, action.ask_value)
      [] action.type = "CancelBid" -> handle_cancel_bid(g, action.player_id, action.price)
      [] action.type = "CancelAsk" -> handle_cancel_ask(g, action.player_id, action.price)
      [] action.type = "End" -> handle_game_end(g)

----------------------------------------------------------------------------
(* Inputs *)

Configs ==
    [tick_interval : {DurationStep * k : k \in 1..MaxIntervalSteps},
     game_duration : {DurationStep * k : k \in 0..MaxDurationSteps},
     max_price_delta : {MaxPriceDelta},
     starting_price : {StartingPrice},
     countdown_duration : {1000 * CountdownSecs},
     starting_balance : {StartingBalance}]

ActionPlayers == PlayerIds \cup {Stranger}

Bids == [type : {"Bid"}, player_id : ActionPlayers, bid_value : Values]
Asks == [type : {"Ask"}, player_id : ActionPlayers, ask_value : Values]
CancelBids == [type : {"CancelBid"}, player_id : ActionPlayers, price : Values]
CancelAsks == [type : {"CancelAsk"}, player_id : ActionPlayers, price : Values]
Countdowns == [type : {"Countdown"}, remaining : 1..CountdownSecs]
PlayerCommands == Bids \cup Asks \cup CancelBids \cup CancelAsks
GameActions ==
    PlayerCommands \cup Countdowns \cup {[type |-> "Start"], [type |-> "Tick"], [type |-> "End"]}

\* the draws the tickers of g can make in one Tick (after Ticker::tick aged the forces)
TickDraws(g) ==
    UNION {{d \in [PlayerIds -> UNION {range[p] : p \in PlayerIds}] :
                \A p \in PlayerIds : d[p] \in range[p]} :
           range \in {[p \in PlayerIds |-> Draws(Ticker_tick(g.player_tickers[p].ticker))]}}

NoDraw == [p \in PlayerIds |-> 0]

\* exploration bound: at most MaxMarketEvents hooks (two forces each) ran on a ticker
WithinForces(g) ==
    \A p \in PlayerIds : Len(g.player_tickers[p].ticker.forces) <= 2 * MaxMarketEvents

----------------------------------------------------------------------------
(* Specification Spec: the reducer driven by every sequence of actions      *)

ServiceIdle ==
    /\ launched = FALSE
    /\ calls = EmptyBag
    /\ sleeping = EmptyBag
    /\ notifying = EmptyBag
    /\ done = [ticks |-> 0, ends |-> 0]

Init ==
    /\ game \in {GameState_new(c) : c \in Configs}
    /\ ServiceIdle

\* one call of GameState::process_action on the game
Reduce(action, draw) ==
    \E r \in {process_action(game, action, draw)} :
        /\ WithinForces(r.game)
        /\ game' = r.game
        /\ UNCHANGED <<launched, calls, sleeping, notifying, done>>

Countdown == \E a \in Countdowns : Reduce(a, NoDraw)
Start == Reduce([type |-> "Start"], NoDraw)
Tick == \E d \in TickDraws(game) : Reduce([type |-> "Tick"], d)
Bid == \E a \in Bids : Reduce(a, NoDraw)
Ask == \E a \in Asks : Reduce(a, NoDraw)
CancelBid == \E a \in CancelBids : Reduce(a, NoDraw)
CancelAsk == \E a \in CancelAsks : Reduce(a, NoDraw)
End == Reduce([type |-> "End"], NoDraw)

Next ==
    \/ Countdown
    \/ Start
    \/ Tick
    \/ Bid
    \/ Ask
    \/ CancelBid
    \/ CancelAsk
    \/ End

Spec == Init /\ [][Next]_vars

----------------------------------------------------------------------------
(* Specification SpecMarket: the reducer followed through a buy and a sell. *)
(* The players of the longest game place bids at the starting price and     *)
(* asks at or above it between the ticks, so that shares are bought,        *)
(* offered and sold.                                                        *)

MarketConfig ==
    [tick_interval |-> DurationStep,
     game_duration |-> DurationStep * MaxDurationSteps,
     max_price_delta |-> MaxPriceDelta,
     starting_price |-> StartingPrice,
     countdown_duration |-> 1000 * CountdownSecs,
     starting_balance |-> StartingBalance]

MarketOrders ==
    [type : {"Bid"}, player_id : PlayerIds, bid_value : {0, StartingPrice}]
    \cup [type : {"Ask"}, player_id : PlayerIds, ask_value : StartingPrice..MaxValue]

\* exploration bound: a placement and a fill of a bid, then of an ask, on top of
\* MaxMarketEvents events (two forces each)
WithinMarket(g) ==
    \A p \in PlayerIds : Len(g.player_tickers[p].ticker.forces) <= 2 * (MaxMarketEvents + 2)

InitMarket ==
    /\ game = GameState_new(MarketConfig)
    /\ ServiceIdle

\* one call of GameState::process_action on the game
MarketReduce(action, draw) ==
    \E r \in {process_action(game, action, draw)} :
        /\ WithinMarket(r.game)
        /\ game' = r.game
        /\ UNCHANGED <<launched, calls, sleeping, notifying, done>>

MarketStart == MarketReduce([type |-> "Start"], NoDraw)
MarketTick == \E d \in TickDraws(game) : MarketReduce([type |-> "Tick"], d)
MarketOrder == \E a \in MarketOrders : MarketReduce(a, NoDraw)

NextMarket ==
    \/ MarketStart
    \/ MarketTick
    \/ MarketOrder

SpecMarket == InitMarket /\ [][NextMarket]_vars

----------------------------------------------------------------------------
(* Specification SpecAnyConfig: the reducer of Spec on games launched with  *)
(* any starting_price an i32 config field can hold, negative ones included *)

StartingPrices == (-StartingPrice)..StartingPrice

AnyConfigs ==
    [tick_interval : {DurationStep},
     game_duration : {DurationStep * MaxDurationSteps},
     max_price_delta : {MaxPriceDelta},
     starting_price : StartingPrices,
     countdown_duration : {1000 * CountdownSecs},
     starting_balance : {StartingBalance}]

InitAnyConfig ==
    /\ game \in {GameState_new(c) : c \in AnyConfigs}
    /\ ServiceIdle

SpecAnyConfig == InitAnyConfig /\ [][Next]_vars

----------------------------------------------------------------------------
(* Specification SpecDecay: the reducer on a game long enough for the       *)
(* forces of a placed bid (linear(5)) and of a fill (linear(4)) to run out  *)

MaxDecayTicks == 6

DecayConfig ==
    [tick_interval |-> DurationStep,
     game_duration |-> DurationStep * MaxDecayTicks,
     max_price_delta |-> MaxPriceDelta,
     starting_price |-> StartingPrice,
     countdown_duration |-> 1000 * CountdownSecs,
     starting_balance |-> StartingBalance]

DecayOrders == [type : {"Bid"}, player_id : PlayerIds, bid_value : {0}]

InitDecay ==
    /\ game = GameState_new(DecayConfig)
    /\ ServiceIdle

\* one call of GameState::process_action on the game
DecayReduce(action, draw) ==
    \E r \in {process_action(game, action, draw)} :
        /\ WithinForces(r.game)
        /\ game' = r.game
        /\ UNCHANGED <<launched, calls, sleeping, notifying, done>>

DecayStart == DecayReduce([type |-> "Start"], NoDraw)
DecayTick == \E d \in TickDraws(game) : DecayReduce([type |-> "Tick"], d)
DecayOrder == \E a \in DecayOrders : DecayReduce(a, NoDraw)

NextDecay ==
    \/ DecayStart
    \/ DecayTick
    \/ DecayOrder

SpecDecay == InitDecay /\ [][NextDecay]_vars

----------------------------------------------------------------------------
(* Claims about the reducer, checked under Spec *)

Running == game.phase = "Running"

TickAction == [type |-> "Tick"]

\* every outcome process_action can have in the current state
Outcomes ==
    {[action |-> a, res |-> process_action(game, a, NoDraw)] : a \in GameActions \ {TickAction}}
    \cup {[action |-> TickAction, res |-> process_action(game, TickAction, d)] :
            d \in TickDraws(game)}

\* C1: in a Running game every player's available_cash = cash - sum(open_bids) is >= 0
\* after any sequence of Bid, Ask, CancelBid, CancelAsk and Tick, for any integer values.
C1_AvailableCashNonNegative ==
    Running => \A p \in PlayerIds : available_cash(game.players[p]) >= 0

\* C2: whenever process_action returns an error, the state it leaves is the state
\* before the call and no effect is produced.
C2_ErrorLeavesStateUnchanged ==
    \A o \in Outcomes : o.res.err # NoError => o.res.game = game /\ o.res.effects = <<>>

C2_Witness ==
    /\ Running
    /\ \E p \in PlayerIds : game.players[p].open_bids # <<>>
    /\ \E o \in Outcomes : o.res.err.type = "InsufficientFunds"
    /\ \E o \in Outcomes : o.res.err.type = "OrderNotFound"

PhaseRank(phase) == CASE phase = "Pending" -> 0 [] phase = "Running" -> 1 [] phase = "Ended" -> 2

\* the only phase changes an action makes: a successful Start, a successful End
OnlyStartAndEndChangePhase ==
    \A o \in Outcomes :
        o.res.game.phase # game.phase =>
            \/ /\ o.action.type = "Start" /\ o.res.err = NoError
               /\ game.phase = "Pending" /\ o.res.game.phase = "Running"
            \/ /\ o.action.type = "End" /\ o.res.err = NoError
               /\ game.phase = "Running" /\ o.res.game.phase = "Ended"

\* C3: the phase only moves forward along Pending -> Running -> Ended; only a
\* successful Start changes Pending to Running, only a successful End Running to Ended.
C3_PhaseMonotonic ==
    /\ []OnlyStartAndEndChangePhase
    /\ [][PhaseRank(game'.phase) >= PhaseRank(game.phase)]_vars

C3_Witness ==
    /\ game.phase = "Ended"
    /\ game.ticks_remaining = 0
    /\ game.config.game_duration \div game.config.tick_interval = 2

\* the name a handler passes to require_phase
GateName(a) == IF a.type = "Tick" THEN "PriceTick" ELSE a.type

\* C4: Bid, Ask, CancelBid, CancelAsk, Tick and End are rejected with InvalidPhase
\* outside Running, Start outside Pending: never a silent no-op in the wrong phase.
C4_PhaseGates ==
    \A o \in Outcomes :
        /\ (o.action.type \in {"Bid", "Ask", "CancelBid", "CancelAsk", "Tick", "End"}
            /\ game.phase # "Running")
                => o.res.err = InvalidPhase(GateName(o.action), game.phase)
        /\ (o.action.type = "Start" /\ game.phase # "Pending")
                => o.res.err = InvalidPhase("Start", game.phase)

C4_Witness ==
    /\ game.phase = "Ended"
    /\ \A p \in PlayerIds : game.players[p].open_bids # <<>>

DelayedActionsOf(effects) == SelectSeq(effects, LAMBDA e : e.kind = "DelayedAction")

\* C5: every successful Tick emits exactly one DelayedAction, with delay tick_interval,
\* whose action is End if ticks_remaining is 0 after the decrement and Tick otherwise.
C5_TickSchedulesOneFollowUp ==
    \A o \in Outcomes :
        (o.action.type = "Tick" /\ o.res.err = NoError) =>
            DelayedActionsOf(o.res.effects) =
                <<DelayedAction(game.config.tick_interval,
                                IF o.res.game.ticks_remaining = 0
                                THEN [type |-> "End"] ELSE [type |-> "Tick"])>>

\* after a first Tick (followed by a Tick) the final Tick (followed by End) is due
C5_Witness ==
    /\ Running
    /\ game.ticks_remaining = 1
    /\ game.config.game_duration \div game.config.tick_interval = 2
    /\ \E o \in Outcomes : o.action.type = "Tick" /\ o.res.err = NoError

\* C6: a Tick in Running with ticks_remaining = 0 returns InvalidPhase{"PriceTick", Ended},
\* changes no state and schedules no further action.
C6_OvershootTickRejected ==
    (Running /\ game.ticks_remaining = 0) =>
        \A o \in Outcomes :
            o.action.type = "Tick" =>
                /\ o.res.err = InvalidPhase("PriceTick", "Ended")
                /\ o.res.game = game
                /\ o.res.effects = <<>>

\* the ticks of a game with tick_count > 0 are used up and End has not run yet
C6_Witness ==
    /\ Running
    /\ game.ticks_remaining = 0
    /\ game.config.game_duration \div game.config.tick_interval > 0

----------------------------------------------------------------------------
(* Claims about orders and their resolution *)

\* C13: in a Running game Bid{pid, v} is accepted exactly when v <= available_cash(pid);
\* accepted, it adds exactly one entry v to pid's open_bids, leaves cash and shares
\* unchanged and emits one BidPlaced{pid, v} to every player; rejected, it returns
\* InsufficientFunds{available: available_cash(pid), required: v}.
C13_BidAcceptedWithinAvailableCash ==
    Running =>
        \A o \in Outcomes :
            o.action.type = "Bid" =>
                LET pid == o.action.player_id
                    v == o.action.bid_value
                IN  /\ o.res.err = NoError =>
                            \E p \in PlayerIds :
                                /\ p = pid
                                /\ v <= available_cash(game.players[p])
                                /\ o.res.game.players[p].open_bids =
                                        Append(game.players[p].open_bids, v)
                                /\ o.res.game.players[p].cash = game.players[p].cash
                                /\ o.res.game.players[p].shares = game.players[p].shares
                                /\ o.res.effects =
                                        NotifyAll([type |-> "BidPlaced", player_id |-> pid,
                                                   bid_value |-> v])
                    /\ (pid \in PlayerIds /\ o.res.err # NoError) =>
                            /\ v > available_cash(game.players[pid])
                            /\ o.res.err =
                                    InsufficientFunds(available_cash(game.players[pid]), v)

\* the shares of st that no open ask has committed
UncommittedShares(st) == Len(st.shares) - Len(st.open_asks)

\* C14: in a Running game Ask is accepted exactly when the player has at least one share
\* not committed to an open ask; otherwise it returns InsufficientShares{available: 0,
\* required: 1} and open_asks is unchanged.
C14_AskNeedsUncommittedShare ==
    Running =>
        \A o \in Outcomes :
            o.action.type = "Ask" =>
                LET pid == o.action.player_id
                    has_share == pid \in PlayerIds /\ UncommittedShares(game.players[pid]) >= 1
                IN  /\ has_share <=> o.res.err = NoError
                    /\ ~has_share =>
                            /\ o.res.err = InsufficientShares(0, 1)
                            /\ o.res.game.players = game.players

\* a player's single share is committed to an open ask: a second Ask is refused
C14_Witness ==
    /\ Running
    /\ \E p \in PlayerIds :
            /\ Len(game.players[p].shares) = 1
            /\ Len(game.players[p].open_asks) = 1
            /\ \E o \in Outcomes :
                    /\ o.action.type = "Ask" /\ o.action.player_id = p
                    /\ o.res.err = InsufficientShares(0, 1)

\* handle_price_tick up to its call of resolve_bids: the tick is counted, the prices moved
PriceTicked(g, draw) ==
    [g EXCEPT !.ticks_remaining = @ - 1,
              !.player_tickers = [p \in PlayerIds |-> PlayerTicker_tick(@[p], draw[p])]]

\* the games resolve_bids can be called on from the current state
BeforeResolveBids == {game} \cup {PriceTicked(game, d) : d \in TickDraws(game)}

\* the games resolve_asks can be called on from the current state
BeforeResolveAsks == {game} \cup {resolve_bids(g).game : g \in BeforeResolveBids}

\* the number of elements of s that satisfy Test
CountSeq(s, Test(_)) == Len(SelectSeq(s, Test))

\* g with the current price of player q set to price
WithPrice(g, q, price) == [g EXCEPT !.player_tickers[q].current_price = price]

\* C15: resolve_bids fills, for each player and against that player's own current price
\* p, exactly the open bids with value >= p: a filled bid leaves open_bids, adds one share
\* and takes p (not the bid value) from cash; the bids below p stay open, and the price of
\* no other player influences the result.
C15_BidsFilledAtOwnPrice ==
    \A g \in BeforeResolveBids :
        \A p \in PlayerIds :
            LET price == g.player_tickers[p].current_price
                before == g.players[p]
                after == resolve_bids(g).game.players[p]
                filled == CountSeq(before.open_bids, LAMBDA b : b >= price)
            IN  /\ after.open_bids = SelectSeq(before.open_bids, LAMBDA b : b < price)
                /\ after.shares = before.shares \o [i \in 1..filled |-> price]
                /\ after.cash = before.cash - filled * price
                /\ after.open_asks = before.open_asks
                /\ \A q \in PlayerIds \ {p} : \A other \in 0..(MaxValue + 1) :
                        resolve_bids(WithPrice(g, q, other)).game.players[p] = after

\* a player holds a bid above the price it is filled at, and a bid that stays open
C15_Witness ==
    \E g \in BeforeResolveBids :
        \E p \in PlayerIds :
            /\ g.phase = "Running"
            /\ \E i \in 1..Len(g.players[p].open_bids) :
                    g.players[p].open_bids[i] > g.player_tickers[p].current_price
            /\ \E i \in 1..Len(g.players[p].open_bids) :
                    g.players[p].open_bids[i] < g.player_tickers[p].current_price
            /\ \E q \in PlayerIds :
                    g.player_tickers[q].current_price # g.player_tickers[p].current_price

\* C16: resolve_asks fills, for each player against that player's own current price p,
\* exactly the open asks with value <= p: a filled ask leaves open_asks, the share count
\* drops by one and cash grows by p; the asks above p stay open.
C16_AsksFilledAtOwnPrice ==
    \A g \in BeforeResolveAsks :
        \A p \in PlayerIds :
            LET price == g.player_tickers[p].current_price
                before == g.players[p]
                after == resolve_asks(g).game.players[p]
                filled == CountSeq(before.open_asks, LAMBDA a : a <= price)
            IN  /\ after.open_asks = SelectSeq(before.open_asks, LAMBDA a : a > price)
                /\ Len(after.shares) = Len(before.shares) - filled
                /\ after.cash = before.cash + filled * price
                /\ after.open_bids = before.open_bids

\* a player holds a share and an open ask that one price of the coming tick fills
\* and another leaves open
C16_Witness ==
    \E p \in PlayerIds :
        /\ Running
        /\ game.players[p].shares # <<>>
        /\ \E g \in BeforeResolveAsks :
                \E i \in 1..Len(g.players[p].open_asks) :
                    g.players[p].open_asks[i] <= g.player_tickers[p].current_price
        /\ \E g \in BeforeResolveAsks :
                \E i \in 1..Len(g.players[p].open_asks) :
                    g.players[p].open_asks[i] > g.player_tickers[p].current_price


\* the game after k consecutive calls of process_action with action
RECURSIVE AfterCalls(_, _, _)
AfterCalls(g, action, k) ==
    IF k = 0 THEN g ELSE process_action(AfterCalls(g, action, k - 1), action, NoDraw).game

\* the open orders a cancel action searches, and the order_type its error names
OrdersOf(st, action) == IF action.type = "CancelBid" THEN st.open_bids ELSE st.open_asks
OrderType(action) == IF action.type = "CancelBid" THEN "bid" ELSE "ask"

\* g with the searched orders of player pid replaced by orders
WithOrders(g, pid, action, orders) ==
    IF action.type = "CancelBid"
    THEN [g EXCEPT !.players[pid].open_bids = orders]
    ELSE [g EXCEPT !.players[pid].open_asks = orders]

\* C17: in a Running game CancelBid{pid, price} of a player holding n open bids at that
\* price succeeds n times in a row, each call removing exactly one bid at that price and
\* nothing else, and the next call returns OrderNotFound{"bid", price}; for a pid that is
\* not a player it returns PlayerNotFound(pid). CancelAsk does the same on open_asks.
C17_CancelRemovesOneOrder ==
    Running =>
        \A a \in CancelBids \cup CancelAsks :
            LET pid == a.player_id
                n == CountSeq(OrdersOf(game.players[pid], a), LAMBDA x : x = a.price)
                last == AfterCalls(game, a, n)
            IN  IF pid \notin PlayerIds
                THEN process_action(game, a, NoDraw) = Err(game, PlayerNotFound(pid))
                ELSE /\ \A k \in 1..n :
                            LET before == AfterCalls(game, a, k - 1)
                                r == process_action(before, a, NoDraw)
                                was == OrdersOf(before.players[pid], a)
                                now == OrdersOf(r.game.players[pid], a)
                            IN  /\ r.err = NoError
                                /\ Len(now) = Len(was) - 1
                                /\ CountSeq(now, LAMBDA x : x = a.price) = n - k
                                /\ SelectSeq(now, LAMBDA x : x # a.price)
                                        = SelectSeq(was, LAMBDA x : x # a.price)
                                /\ r.game = WithOrders(before, pid, a, now)
                     /\ process_action(last, a, NoDraw)
                            = Err(last, OrderNotFound(OrderType(a), a.price))

\* a player holds two open bids at one price and a third bid at another price
C17_Witness ==
    /\ Running
    /\ \E p \in PlayerIds :
            \E v \in Values :
                /\ CountSeq(game.players[p].open_bids, LAMBDA x : x = v) = 2
                /\ CountSeq(game.players[p].open_bids, LAMBDA x : x # v) = 1

\* the GameEnded events among effects sent to player pid
GameEndedTo(effects, pid) ==
    SelectSeq(effects, LAMBDA e : e.kind = "Notification" /\ e.player_id = pid
                                    /\ e.event.type = "GameEnded")

\* C18: End in a Running game sets the phase to Ended, changes nothing else, and emits one
\* GameEnded notification per player and no other effect; its final_balances holds one
\* entry per player, cash + shares.len() * that player's own current price, whatever the
\* player's open bids and asks are.
C18_EndReportsNetWorth ==
    Running =>
        \A o \in Outcomes :
            o.action.type = "End" =>
                /\ o.res.err = NoError
                /\ o.res.game = [game EXCEPT !.phase = "Ended"]
                /\ Len(o.res.effects) = NumPlayers
                /\ \A pid \in PlayerIds :
                        LET sent == GameEndedTo(o.res.effects, pid)
                        IN  /\ Len(sent) = 1
                            /\ LET balances == sent[1].event.final_balances
                               IN  /\ Len(balances) = NumPlayers
                                   /\ \A q \in PlayerIds :
                                        \E i \in 1..Len(balances) :
                                            balances[i] =
                                                <<q, game.players[q].cash
                                                        + Len(game.players[q].shares)
                                                            * game.player_tickers[q].current_price>>

\* a Running game whose players stand at different prices, one holding a share at a price
\* that is not 0, one an open bid that is not 0, one an open ask
C18_Witness ==
    /\ Running
    /\ \E p, q \in PlayerIds :
            game.player_tickers[p].current_price # game.player_tickers[q].current_price
    /\ \E p \in PlayerIds :
            game.players[p].shares # <<>> /\ game.player_tickers[p].current_price # 0
    /\ \E p \in PlayerIds : SumSeq(game.players[p].open_bids) # 0
    /\ \E p \in PlayerIds : game.players[p].open_asks # <<>>

\* the GameStarted events among effects sent to player pid
GameStartedTo(effects, pid) ==
    SelectSeq(effects, LAMBDA e : e.kind = "Notification" /\ e.player_id = pid
                                    /\ e.event.type = "GameStarted")

\* C19: Start in a Pending game sets the phase to Running and every ticker's current_price
\* to starting_price, leaves ticks_remaining, the config, the tickers' forces and all
\* accounts unchanged, and emits one GameStarted per player plus exactly one
\* DelayedAction{tick_interval, Tick}, and no other effect.
C19_StartOpensTheMarket ==
    game.phase = "Pending" =>
        \A o \in Outcomes :
            o.action.type = "Start" =>
                /\ o.res.err = NoError
                /\ o.res.game.phase = "Running"
                /\ \A p \in PlayerIds :
                        /\ o.res.game.player_tickers[p].current_price
                                = game.config.starting_price
                        /\ o.res.game.player_tickers[p].ticker = game.player_tickers[p].ticker
                /\ o.res.game.ticks_remaining = game.ticks_remaining
                /\ o.res.game.players = game.players
                /\ o.res.game.config = game.config
                /\ Len(o.res.effects) = NumPlayers + 1
                /\ \A p \in PlayerIds : Len(GameStartedTo(o.res.effects, p)) = 1
                /\ DelayedActionsOf(o.res.effects)
                        = <<DelayedAction(game.config.tick_interval, TickAction)>>

\* a Pending game with ticks to run whose tickers are not at starting_price
C19_Witness ==
    /\ game.phase = "Pending"
    /\ game.ticks_remaining > 0
    /\ \A p \in PlayerIds : game.player_tickers[p].current_price # game.config.starting_price

\* C20: Countdown(r) is accepted in every phase but Ended, where it emits exactly one
\* Countdown(r) notification per player and leaves the game unchanged; in phase Ended it
\* is rejected with InvalidPhase.
C20_CountdownRejectedWhenEnded ==
    \A o \in Outcomes :
        o.action.type = "Countdown" =>
            IF game.phase # "Ended"
            THEN /\ o.res.err = NoError
                 /\ o.res.game = game
                 /\ o.res.effects
                        = NotifyAll([type |-> "Countdown", remaining |-> o.action.remaining])
            ELSE o.res.err = InvalidPhase("Countdown", "Ended")

\* C21: ticks_remaining never increases: a successful Tick lowers it by exactly 1, and
\* every other action, accepted or rejected, and a rejected Tick leave it as it was.
C21_TicksRemainingOnlyDecrements ==
    \A o \in Outcomes :
        o.res.game.ticks_remaining =
            IF o.action.type = "Tick" /\ o.res.err = NoError
            THEN game.ticks_remaining - 1
            ELSE game.ticks_remaining

\* a Running game that has run a Tick, has a Tick left, and holds an open bid
C21_Witness ==
    /\ Running
    /\ game.ticks_remaining >= 1
    /\ game.ticks_remaining < game.config.game_duration \div game.config.tick_interval
    /\ \E p \in PlayerIds : game.players[p].open_bids # <<>>

\* C22: after any action on a game, Start with the configured starting_price and every
\* Tick included, every player's current_price is >= 0.
C22_PriceNonNegative ==
    \A o \in Outcomes :
        \A p \in PlayerIds : o.res.game.player_tickers[p].current_price >= 0

----------------------------------------------------------------------------
(* Specification SpecStore: the store-backed game service                   *)
(* application/src/ports/in_/game_service.rs.  One game; the write lock of  *)
(* the GameStore makes get_mut + process_action one step; process_effects   *)
(* runs after the lock is released and has no await, so its loop is one     *)
(* step too.  tokio::time::sleep only bounds a delay from below: a sleeping *)
(* task may wake at any later step.                                         *)

SvcCommands ==
    [type : {"Bid"}, player_id : PlayerIds, bid_value : 1..SvcMaxValue]

\* who runs a call: the task of a delayed action, or the connection of a player
Timer == <<"timer", 0>>
Connection(p) == <<"player", p>>

\* a call between its reducer and its process_effects
Call(src, action, effects) == [src |-> src, action |-> action, effects |-> effects]

RECURSIVE SeqToBag(_)
SeqToBag(s) == IF s = <<>> THEN EmptyBag ELSE SetToBag({Head(s)}) (+) SeqToBag(Tail(s))

NotificationsOf(effects) == SelectSeq(effects, LAMBDA e : e.kind = "Notification")

\* the tasks process_effects spawns for effects: notify_player tasks and sleeping tasks
SpawnedNotifies(effects) ==
    SeqToBag([i \in 1..Len(NotificationsOf(effects)) |-> NotificationsOf(effects)[i].player_id])

\* a process_effects that spawns two sleeping tasks for every DelayedAction
SpawnedSleepers_twice(effects) ==
    SeqToBag([i \in 1..Len(DelayedActionsOf(effects)) |-> DelayedActionsOf(effects)[i].action])
    (+) SeqToBag([i \in 1..Len(DelayedActionsOf(effects)) |-> DelayedActionsOf(effects)[i].action])

SpawnedSleepers(effects) ==
    SeqToBag([i \in 1..Len(DelayedActionsOf(effects)) |-> DelayedActionsOf(effects)[i].action])

\* a process_action that, when the reducer rejects the action, schedules it again
StoreReduce_reschedules_rejected(src, action, draw) ==
    \E r \in {process_action(game, action, draw)} :
        /\ WithinForces(r.game)
        /\ game' = r.game
        /\ calls' = calls (+) SetToBag({Call(src, action,
                        IF r.err = NoError THEN r.effects ELSE <<DelayedAction(0, action)>>)})
        /\ done' = IF r.err = NoError /\ src = Timer /\ action.type = "Tick"
                   THEN [done EXCEPT !.ticks = @ + 1]
                   ELSE IF r.err = NoError /\ src = Timer /\ action.type = "End"
                   THEN [done EXCEPT !.ends = @ + 1]
                   ELSE done

\* process_action of the service: the reducer under the store's write lock
\* (game_service.rs 119-125).  An Err returns before process_effects.
StoreReduce(src, action, draw) ==
    \E r \in {process_action(game, action, draw)} :
        /\ WithinForces(r.game)
        /\ game' = r.game
        /\ calls' = IF r.err = NoError
                    THEN calls (+) SetToBag({Call(src, action, r.effects)})
                    ELSE calls
        /\ done' = IF r.err = NoError /\ src = Timer /\ action.type = "Tick"
                   THEN [done EXCEPT !.ticks = @ + 1]
                   ELSE IF r.err = NoError /\ src = Timer /\ action.type = "End"
                   THEN [done EXCEPT !.ends = @ + 1]
                   ELSE done

InitStore ==
    /\ game \in {GameState_new(c) : c \in Configs}
    /\ launched = FALSE
    /\ calls = EmptyBag
    /\ sleeping = EmptyBag
    /\ notifying = EmptyBag
    /\ done = [ticks |-> 0, ends |-> 0]

\* execute(LaunchGame): insert the game, then process_effects of the launch effects
LaunchGame ==
    /\ ~launched
    /\ launched' = TRUE
    /\ calls' = calls (+) SetToBag({Call(Timer, [type |-> "Launch"], launch_effects(game.config))})
    /\ UNCHANGED <<game, sleeping, notifying, done>>

\* execute(PlaceBid | PlaceAsk | CancelBid) of a connected player: one command at a
\* time per connection (handle_messages awaits execute)
PlayerCommand ==
    \E a \in SvcCommands :
        /\ launched
        /\ \A c \in BagToSet(calls) : c.src # Connection(a.player_id)
        /\ StoreReduce(Connection(a.player_id), a, NoDraw)
        /\ UNCHANGED <<launched, sleeping, notifying>>

\* a sleeping task wakes and calls process_action (game_service.rs 196-199)
WakeDelayed ==
    \E a \in BagToSet(sleeping) :
        \E d \in (IF a.type = "Tick" THEN TickDraws(game) ELSE {NoDraw}) :
            /\ sleeping' = sleeping (-) SetToBag({a})
            /\ StoreReduce(Timer, a, d)
            /\ UNCHANGED <<launched, notifying>>

\* process_effects: spawn one task per effect of a reduced call
ProcessEffects ==
    \E c \in BagToSet(calls) :
        /\ calls' = calls (-) SetToBag({c})
        /\ notifying' = notifying (+) SpawnedNotifies(c.effects)
        /\ sleeping' = sleeping (+) SpawnedSleepers(c.effects)
        /\ UNCHANGED <<game, launched, done>>

\* a spawned task delivers its notification: notifier.notify_player
Deliver ==
    \E n \in BagToSet(notifying) :
        /\ notifying' = notifying (-) SetToBag({n})
        /\ UNCHANGED <<game, launched, calls, sleeping, done>>

NextStore ==
    \/ LaunchGame
    \/ PlayerCommand
    \/ WakeDelayed
    \/ ProcessEffects
    \/ Deliver

SpecStore == InitStore /\ [][NextStore]_vars

----------------------------------------------------------------------------
(* Claims about the clock of a game, checked under SpecStore *)

ClockTypes == {"Tick", "End"}

\* the sub-bag of the elements of B that satisfy Test
BagSelect(B, Test(_)) == [e \in {x \in BagToSet(B) : Test(x)} |-> B[e]]

\* a call that executes a Tick or an End, or holds one in the effects it has yet to spawn
HoldsClockAction(c) ==
    \/ c.action.type \in ClockTypes
    \/ \E i \in 1..Len(c.effects) :
            c.effects[i].kind = "DelayedAction" /\ c.effects[i].action.type \in ClockTypes

\* the Tick and End delayed actions that are pending (asleep) or executing
PendingClockActions ==
    BagCardinality(BagSelect(sleeping, LAMBDA a : a.type \in ClockTypes))
    + BagCardinality(BagSelect(calls, HoldsClockAction))

\* nothing of the game is asleep or in a call: the chain of delayed actions is over
ChainOver == launched /\ calls = EmptyBag /\ sleeping = EmptyBag

\* C7: the chain Start begins processes exactly tick_count = floor(game_duration /
\* tick_interval) successful Ticks and then exactly one End: when no delayed action is
\* left, the game is Ended after tick_count Ticks and one End.
C7_ChainRunsTicksThenEnd ==
    ChainOver =>
        /\ game.phase = "Ended"
        /\ done.ticks = game.config.game_duration \div game.config.tick_interval
        /\ done.ends = 1

\* C8: at most one Tick-or-End delayed action of the game is pending or executing.
C8_AtMostOneClockAction == PendingClockActions <= 1

\* a second Tick sleeps after the first one ran, while a player's command is in a call
C8_Witness ==
    /\ done.ticks >= 1
    /\ BagIn([type |-> "Tick"], sleeping)
    /\ \E c \in BagToSet(calls) : c.action.type = "Bid"
    /\ PendingClockActions = 1

\* a step in which the reducer accepts an action: of a player, or of a woken task
ReducerAccepts == (PlayerCommand \/ WakeDelayed) /\ calls' # calls

\* C10: every effect of an action A is dispatched (its notifications delivered to the
\* notifier, its delayed actions handed to the scheduler) before the reducer of a later
\* action B starts.
C10_EffectsDispatchedBeforeNextReducer ==
    [][ReducerAccepts => (calls = EmptyBag /\ notifying = EmptyBag)]_vars

\* the reducer rejects the delayed action a in the current state of the game
RejectedNow(a) ==
    \A d \in (IF a.type = "Tick" THEN TickDraws(game) ELSE {NoDraw}) :
        process_action(game, a, d).err # NoError

\* C12: when processing a scheduled action returns an error, the scheduler drops it:
\* the task of the action is gone and is not retried, no delayed action and no other
\* effect comes from it, and the stored game is unchanged.
C12_RejectedScheduledActionDropped ==
    [][\A a \in BagToSet(sleeping) :
          (sleeping' = sleeping (-) SetToBag({a}) /\ RejectedNow(a)) =>
              (game' = game /\ calls' = calls /\ notifying' = notifying /\ done' = done)]_vars

\* the Tick that Start scheduled for a game without ticks was rejected and dropped:
\* the game is Running and nothing is scheduled for it
C12_Witness ==
    /\ ChainOver
    /\ game.phase = "Running"
    /\ game.ticks_remaining = 0
    /\ done.ticks = 0

----------------------------------------------------------------------------
(* Specification SpecRepo: the repository-backed scheduler                  *)
(* adapters/src/tokio_scheduler.rs over adapters/src/in_memory.rs.          *)
(* process_game_action loads a copy of the game, reduces the copy and saves *)
(* it; the repository locks each load_game and each save_game on its own.   *)
(* game is the stored state; a call carries its copy.  The commands of the  *)
(* players enter through the same function, one at a time (the service is   *)
(* behind one tokio Mutex, server/src/main.rs 39).                          *)

RepoCall(src, action, stage, local, effects) ==
    [src |-> src, action |-> action, stage |-> stage, local |-> local, effects |-> effects]

\* the game was saved at its creation and its launch effects were scheduled; the
\* games start without a countdown (countdown_duration 0: launch schedules Start alone)
InitRepo ==
    /\ game \in {GameState_new([c EXCEPT !.countdown_duration = 0]) : c \in Configs}
    /\ launched = TRUE
    /\ calls = EmptyBag
    /\ sleeping = SpawnedSleepers(launch_effects(game.config))
    /\ notifying = EmptyBag
    /\ done = [ticks |-> 0, ends |-> 0]

\* a sleeping task wakes: execute_and_reschedule calls process_game_action, load_game
ScheduledLoad ==
    \E a \in BagToSet(sleeping) :
        /\ sleeping' = sleeping (-) SetToBag({a})
        /\ calls' = calls (+) SetToBag({RepoCall(Timer, a, "loaded", game, <<>>)})
        /\ UNCHANGED <<game, launched, notifying, done>>

\* a player's command takes the service and calls process_game_action, load_game
PlayerLoad ==
    \E a \in SvcCommands :
        /\ \A c \in BagToSet(calls) : c.src = Timer
        /\ calls' = calls (+) SetToBag({RepoCall(Connection(a.player_id), a, "loaded", game, <<>>)})
        /\ UNCHANGED <<game, launched, sleeping, notifying, done>>

\* process_action on the copy; Ok: save_game; Err: the call returns, nothing is saved
ReduceAndSave ==
    \E c \in BagToSet(calls) :
        \E d \in (IF c.action.type = "Tick" THEN TickDraws(c.local) ELSE {NoDraw}) :
            \E r \in {process_action(c.local, c.action, d)} :
                /\ c.stage = "loaded"
                /\ WithinForces(r.game)
                /\ game' = IF r.err = NoError THEN r.game ELSE game
                /\ calls' = IF r.err = NoError
                            THEN (calls (-) SetToBag({c}))
                                 (+) SetToBag({RepoCall(c.src, c.action, "saved", c.local, r.effects)})
                            ELSE calls (-) SetToBag({c})
                /\ done' = IF r.err = NoError /\ c.action.type = "Tick"
                           THEN [done EXCEPT !.ticks = @ + 1]
                           ELSE IF r.err = NoError /\ c.action.type = "End"
                           THEN [done EXCEPT !.ends = @ + 1]
                           ELSE done
                /\ UNCHANGED <<launched, sleeping, notifying>>

\* the notifications are delivered one await after another, the call returns and
\* execute_and_reschedule spawns a sleeping task for every DelayedAction
NotifyAndReschedule ==
    \E c \in BagToSet(calls) :
        /\ c.stage = "saved"
        /\ calls' = calls (-) SetToBag({c})
        /\ sleeping' = sleeping (+) SpawnedSleepers(c.effects)
        /\ UNCHANGED <<game, launched, notifying, done>>

NextRepo ==
    \/ ScheduledLoad
    \/ PlayerLoad
    \/ ReduceAndSave
    \/ NotifyAndReschedule

SpecRepo == InitRepo /\ [][NextRepo]_vars

----------------------------------------------------------------------------
(* Claims about concurrent calls, checked under SpecRepo *)

\* the calls between their load_game and their save_game
Reducing == BagSelect(calls, LAMBDA c : c.stage = "loaded")

\* C9: reducer calls on a game never overlap and no accepted action's change is lost:
\* at most one call is between its load and its save, and the state it loaded is the
\* state every completed action left in the repository.
C9_ReducerCallsSerialised ==
    /\ BagCardinality(Reducing) <= 1
    /\ \A c \in BagToSet(Reducing) : c.local = game

----------------------------------------------------------------------------
(* The reducer of the repository-backed game service: core/src/game_core.rs *)
(* Its state is the record [current_price, players, liquid_transactions,    *)
(* open_bids, owned_shares, open_asks]; the four lists hold <<player,       *)
(* amount>> pairs.  process_action returns the effects; core operators      *)
(* return [game, effects].                                                  *)

\* GameState::init
core_init(players, starting_balance) ==
    [current_price |-> 0,
     players |-> players,
     liquid_transactions |-> [i \in 1..Len(players) |-> <<players[i], starting_balance>>],
     open_bids |-> <<>>,
     owned_shares |-> <<>>,
     open_asks |-> <<>>]

\* GameState::get_cash_balance
core_get_cash_balance(g, player_id) ==
    SumSeq([i \in 1..Len(g.liquid_transactions) |->
                IF g.liquid_transactions[i][1] = player_id
                THEN g.liquid_transactions[i][2] ELSE 0])

\* GameState::resolve_bids: extract_if takes out, in order, the bids at or above the price
core_resolve_bids(g) ==
    LET price == g.current_price
        resolved == SelectSeq(g.open_bids, LAMBDA b : b[2] >= price)
    IN  [game |-> [g EXCEPT
                    !.open_bids = SelectSeq(g.open_bids, LAMBDA b : b[2] < price),
                    !.owned_shares = @ \o [i \in 1..Len(resolved) |-> <<resolved[i][1], price>>],
                    !.liquid_transactions =
                        @ \o [i \in 1..Len(resolved) |-> <<resolved[i][1], resolved[i][2] - price>>]],
         resolved |-> resolved]

\* the position of the first share of player_id in shares, or 0
RECURSIVE core_share_position(_, _)
core_share_position(shares, player_id) ==
    IF shares = <<>> THEN 0
    ELSE IF Head(shares)[1] = player_id THEN 1
    ELSE LET rest == core_share_position(Tail(shares), player_id)
         IN  IF rest = 0 THEN 0 ELSE rest + 1

\* the owned_shares after each seller of resolved gave up its first share, if it has one
RECURSIVE core_sell_shares(_, _)
core_sell_shares(shares, resolved) ==
    IF resolved = <<>> THEN shares
    ELSE LET pos == core_share_position(shares, Head(resolved)[1])
         IN  core_sell_shares(IF pos = 0 THEN shares ELSE RemoveAt(shares, pos), Tail(resolved))

\* GameState::resolve_asks
core_resolve_asks(g) ==
    LET price == g.current_price
        resolved == SelectSeq(g.open_asks, LAMBDA a : a[2] <= price)
    IN  [game |-> [g EXCEPT
                    !.open_asks = SelectSeq(g.open_asks, LAMBDA a : a[2] > price),
                    !.owned_shares = core_sell_shares(@, resolved),
                    !.liquid_transactions =
                        @ \o [i \in 1..Len(resolved) |-> <<resolved[i][1], price>>]],
         resolved |-> resolved]

\* GameState::handle_price
core_handle_price(g, price) ==
    LET rb == core_resolve_bids([g EXCEPT !.current_price = price])
        ra == core_resolve_asks(rb.game)
    IN  [game |-> ra.game,
         effects |->
            [i \in 1..Len(g.players) |->
                Notification(g.players[i], [type |-> "PriceChanged", price |-> price])]
            \o [i \in 1..Len(rb.resolved) |->
                Notification(rb.resolved[i][1], [type |-> "BidResolved",
                                                 player_id |-> rb.resolved[i][1],
                                                 bid_value |-> rb.resolved[i][2]])]
            \o [i \in 1..Len(ra.resolved) |->
                Notification(ra.resolved[i][1], [type |-> "AskResolved",
                                                 player_id |-> ra.resolved[i][1],
                                                 ask_value |-> ra.resolved[i][2]])]]

\* GameState::handle_bid
core_handle_bid(g, player_id, bid_value) ==
    IF bid_value > core_get_cash_balance(g, player_id)
    THEN [game |-> g,
          effects |-> <<Notification(player_id, [type |-> "BidRejected",
                                                 player_id |-> player_id,
                                                 bid_value |-> bid_value])>>]
    ELSE [game |-> [g EXCEPT !.liquid_transactions = Append(@, <<player_id, -bid_value>>),
                             !.open_bids = Append(@, <<player_id, bid_value>>)],
          effects |-> <<>>]

\* GameState::handle_ask
core_handle_ask(g, player_id, ask_value) ==
    IF core_share_position(g.owned_shares, player_id) = 0
    THEN [game |-> g,
          effects |-> <<Notification(player_id, [type |-> "AskRejected",
                                                 player_id |-> player_id,
                                                 ask_value |-> ask_value])>>]
    ELSE [game |-> [g EXCEPT !.open_asks = Append(@, <<player_id, ask_value>>)],
          effects |-> <<>>]

\* GameState::process_action
core_process_action(g, action) ==
    CASE action.type = "SetPrice" -> core_handle_price(g, action.price)
      [] action.type = "Bid" -> core_handle_bid(g, action.player_id, action.bid_value)
      [] action.type = "Ask" -> core_handle_ask(g, action.player_id, action.ask_value)

----------------------------------------------------------------------------
(* Specification SpecService: the repository-backed game service            *)
(* src/domain/services.rs over the reducer of core/src/game_core.rs.        *)
(* GameService::place_bid and place_ask load a copy of the game, reduce it, *)
(* notify and save; they take &mut self behind the service's tokio Mutex    *)
(* (src/adapter/websocket.rs 159-162), so one runs at a time.  The loop of  *)
(* PriceTickerHandler::run does the same for SetPrice, sleeps and draws the *)
(* next price.  game is the stored state; a call carries the copy it loaded *)
(* and the copy it works on.                                                *)

CoreCommands ==
    [type : {"Bid"}, player_id : PlayerIds, bid_value : 1..SvcMaxValue]
    \cup [type : {"Ask"}, player_id : PlayerIds, ask_value : 1..SvcMaxValue]

SetPrice(price) == [type |-> "SetPrice", price |-> price]

ServiceCall(src, action, stage, loaded, local, effects) ==
    [src |-> src, action |-> action, stage |-> stage,
     loaded |-> loaded, local |-> local, effects |-> effects]

\* exploration bound: the prices and the cash transactions a game is followed through
WithinCoreBounds(g) ==
    /\ g.current_price <= MaxValue
    /\ Len(g.liquid_transactions) <= NumPlayers + MaxMarketEvents
    /\ Len(g.open_asks) <= MaxMarketEvents

\* new_game saved the game; run(game_id, initial_price) is about to iterate
InitService ==
    /\ game = core_init(Keys, StartingBalance)
    /\ launched = TRUE
    /\ calls = EmptyBag
    /\ sleeping \in {SetToBag({SetPrice(p)}) : p \in 0..MaxValue}
    /\ notifying = EmptyBag
    /\ done = [ticks |-> 0, ends |-> 0]

\* PriceTickerHandler::run: the sleep is over, load_game (services.rs 163)
TickerLoad ==
    \E a \in BagToSet(sleeping) :
        /\ sleeping' = sleeping (-) SetToBag({a})
        /\ calls' = calls (+) SetToBag({ServiceCall(Timer, a, "loaded", game, game, <<>>)})
        /\ UNCHANGED <<game, launched, notifying, done>>

\* GameService::place_bid / place_ask: load_game (services.rs 45, 70)
CommandLoad ==
    \E a \in CoreCommands :
        /\ \A c \in BagToSet(calls) : c.src = Timer
        /\ calls' = calls (+) SetToBag({ServiceCall(Connection(a.player_id), a, "loaded",
                                                    game, game, <<>>)})
        /\ UNCHANGED <<game, launched, sleeping, notifying, done>>

\* process_action on the copy, then process_effects: every notification is delivered
\* to the notifier (services.rs 49-50, 74-75, 167-168)
ReduceAndNotify ==
    \E c \in BagToSet(calls) :
        \E r \in {core_process_action(c.local, c.action)} :
            /\ c.stage = "loaded"
            /\ WithinCoreBounds(r.game)
            /\ calls' = (calls (-) SetToBag({c}))
                        (+) SetToBag({ServiceCall(c.src, c.action, "notified",
                                                  c.loaded, r.game, r.effects)})
            /\ UNCHANGED <<game, launched, sleeping, notifying, done>>

\* save_game (services.rs 52, 77, 170); the ticker then sleeps and draws next_price
SaveGame ==
    \E c \in BagToSet(calls) :
        /\ c.stage = "notified"
        /\ game' = c.local
        /\ calls' = calls (-) SetToBag({c})
        /\ IF c.src = Timer
           THEN \E delta \in (-MaxPriceDelta)..MaxPriceDelta :
                    sleeping' = sleeping (+) SetToBag({SetPrice(Max(c.action.price + delta, 0))})
           ELSE sleeping' = sleeping
        /\ UNCHANGED <<launched, notifying, done>>

NextService ==
    \/ TickerLoad
    \/ CommandLoad
    \/ ReduceAndNotify
    \/ SaveGame

SpecService == InitService /\ [][NextService]_vars

----------------------------------------------------------------------------
(* Claims about the order of save and dispatch, checked under SpecService *)

\* C11: in every service entry point the new state is saved to the repository before
\* any effect of the action is dispatched: a call that has delivered the effects of an
\* action that changed the game has the changed game in the repository.
C11_SavedBeforeDispatch ==
    \A c \in BagToSet(calls) :
        (c.stage = "notified" /\ c.effects # <<>> /\ c.local # c.loaded) => game = c.local

----------------------------------------------------------------------------
(* Lobby reducer: src/domain/lobby.rs                                       *)
(* A handler is an operator from the LobbyState (and its input) to the      *)
(* record [lobby, effects].  HashSet iteration is modelled in ascending     *)
(* PlayerId order.                                                          *)

NumLobbyPlayers == 3
CountdownSeconds == 10

LobbyPlayerIds == 1..NumLobbyPlayers
LobbyStranger == NumLobbyPlayers + 1
TheLobbyId == NumLobbyPlayers + 2
TheGameId == NumLobbyPlayers + 3

\* LobbyPhase
WaitingForReady == [kind |-> "WaitingForReady"]
CountingDown(remaining_seconds) ==
    [kind |-> "CountingDown", remaining_seconds |-> remaining_seconds]
GameStarted(game_id) == [kind |-> "GameStarted", game_id |-> game_id]
Cancelled == [kind |-> "Cancelled"]

\* LobbyEffect
Broadcast(event) == [kind |-> "Broadcast", event |-> event]
ScheduleCountdownTick(delay_seconds) ==
    [kind |-> "ScheduleCountdownTick", delay_seconds |-> delay_seconds]
CreateGame(lobby_id, players) ==
    [kind |-> "CreateGame", lobby_id |-> lobby_id, players |-> players]

\* HashSet::iter().copied().collect(): the elements of S as a Vec
RECURSIVE Collect(_)
Collect(S) ==
    IF S = {} THEN <<>>
    ELSE LET m == CHOOSE x \in S : \A y \in S : x <= y
         IN  <<m>> \o Collect(S \ {m})

\* Vec::contains
Contains(s, v) == \E i \in 1..Len(s) : s[i] = v

\* LobbyState::new
LobbyState_new(id, expected_players) ==
    [id |-> id,
     expected_players |-> expected_players,
     arrived_players |-> {},
     ready_players |-> {},
     phase |-> WaitingForReady]

\* all_players_ready satisfied by one ready player
all_players_ready_any(l) == l.ready_players # {}

\* LobbyState::all_players_ready
all_players_ready(l) ==
    l.arrived_players # {} /\ \A p \in l.arrived_players : p \in l.ready_players

\* handle_player_arrived without the check against expected_players
handle_player_arrived_unchecked(l, player_id) ==
    [lobby |-> [l EXCEPT !.arrived_players = @ \cup {player_id}],
     effects |-> <<Broadcast([type |-> "PlayerArrived", player_id |-> player_id])>>]

\* LobbyState::handle_player_arrived
handle_player_arrived(l, player_id) ==
    IF ~Contains(l.expected_players, player_id)
    THEN [lobby |-> l, effects |-> <<>>]
    ELSE [lobby |-> [l EXCEPT !.arrived_players = @ \cup {player_id}],
          effects |-> <<Broadcast([type |-> "PlayerArrived", player_id |-> player_id])>>]

\* LobbyState::handle_player_ready
handle_player_ready(l, player_id) ==
    IF player_id \notin l.arrived_players THEN [lobby |-> l, effects |-> <<>>]
    ELSE IF l.phase # WaitingForReady THEN [lobby |-> l, effects |-> <<>>]
    ELSE LET l1 == [l EXCEPT !.ready_players = @ \cup {player_id}]
             ready == Broadcast([type |-> "PlayerReady", player_id |-> player_id])
         IN  IF all_players_ready(l1)
             THEN [lobby |-> [l1 EXCEPT !.phase = CountingDown(CountdownSeconds)],
                   effects |-> <<ready,
                                 Broadcast([type |-> "CountdownStarted",
                                            seconds |-> CountdownSeconds]),
                                 ScheduleCountdownTick(1)>>]
             ELSE [lobby |-> l1, effects |-> <<ready>>]

\* handle_player_unready leaving a countdown in progress running
handle_player_unready_keeps_countdown(l, player_id) ==
    IF player_id \notin l.ready_players THEN [lobby |-> l, effects |-> <<>>]
    ELSE [lobby |-> [l EXCEPT !.ready_players = @ \ {player_id}],
          effects |-> <<Broadcast([type |-> "PlayerUnready", player_id |-> player_id])>>]

\* LobbyState::handle_player_unready
handle_player_unready(l, player_id) ==
    IF player_id \notin l.ready_players THEN [lobby |-> l, effects |-> <<>>]
    ELSE LET l1 == [l EXCEPT !.ready_players = @ \ {player_id}]
             unready == Broadcast([type |-> "PlayerUnready", player_id |-> player_id])
         IN  IF l.phase.kind = "CountingDown"
             THEN [lobby |-> [l1 EXCEPT !.phase = WaitingForReady],
                   effects |-> <<unready, Broadcast([type |-> "CountdownCancelled"])>>]
             ELSE [lobby |-> l1, effects |-> <<unready>>]

\* handle_player_disconnected cancelling a countdown in progress
handle_player_disconnected_stops_countdown(l, player_id) ==
    LET l1 == [l EXCEPT !.arrived_players = @ \ {player_id},
                        !.ready_players = @ \ {player_id}]
        disconnected == Broadcast([type |-> "PlayerDisconnected", player_id |-> player_id])
    IN  IF l1.arrived_players = {} \/ l.phase.kind = "CountingDown"
        THEN [lobby |-> [l1 EXCEPT !.phase = Cancelled],
              effects |-> <<disconnected, Broadcast([type |-> "LobbyCancelled"])>>]
        ELSE [lobby |-> l1, effects |-> <<disconnected>>]

\* LobbyState::handle_player_disconnected
handle_player_disconnected(l, player_id) ==
    LET l1 == [l EXCEPT !.arrived_players = @ \ {player_id},
                        !.ready_players = @ \ {player_id}]
        disconnected == Broadcast([type |-> "PlayerDisconnected", player_id |-> player_id])
    IN  IF l1.arrived_players = {}
        THEN [lobby |-> [l1 EXCEPT !.phase = Cancelled],
              effects |-> <<disconnected, Broadcast([type |-> "LobbyCancelled"])>>]
        ELSE [lobby |-> l1, effects |-> <<disconnected>>]

\* handle_countdown_tick counting down to 0 before it creates the game
handle_countdown_tick_to_zero(l) ==
    IF l.phase.kind # "CountingDown" THEN [lobby |-> l, effects |-> <<>>]
    ELSE IF l.phase.remaining_seconds > 0
    THEN [lobby |-> [l EXCEPT !.phase = CountingDown(l.phase.remaining_seconds - 1)],
          effects |-> <<Broadcast([type |-> "CountdownTick",
                                   remaining_seconds |-> l.phase.remaining_seconds - 1]),
                        ScheduleCountdownTick(1)>>]
    ELSE [lobby |-> l, effects |-> <<CreateGame(l.id, Collect(l.arrived_players))>>]

\* LobbyState::handle_countdown_tick
handle_countdown_tick(l) ==
    IF l.phase.kind # "CountingDown" THEN [lobby |-> l, effects |-> <<>>]
    ELSE IF l.phase.remaining_seconds > 1
    THEN [lobby |-> [l EXCEPT !.phase = CountingDown(l.phase.remaining_seconds - 1)],
          effects |-> <<Broadcast([type |-> "CountdownTick",
                                   remaining_seconds |-> l.phase.remaining_seconds - 1]),
                        ScheduleCountdownTick(1)>>]
    ELSE [lobby |-> l, effects |-> <<CreateGame(l.id, Collect(l.arrived_players))>>]

\* LobbyState::handle_start_game
handle_start_game(l, game_id) ==
    [lobby |-> [l EXCEPT !.phase = GameStarted(game_id)],
     effects |-> <<Broadcast([type |-> "GameStarting", game_id |-> game_id])>>]

\* LobbyState::process_action
LobbyState_process_action(l, action) ==
    CASE action.type = "PlayerArrived" -> handle_player_arrived(l, action.player_id)
      [] action.type = "PlayerReady" -> handle_player_ready(l, action.player_id)
      [] action.type = "PlayerUnready" -> handle_player_unready(l, action.player_id)
      [] action.type = "PlayerDisconnected" -> handle_player_disconnected(l, action.player_id)
      [] action.type = "CountdownTick" -> handle_countdown_tick(l)
      [] action.type = "StartGame" -> handle_start_game(l, action.game_id)

----------------------------------------------------------------------------
(* Specification SpecLobby: the lobby reducer driven by every sequence of   *)
(* LobbyActions; the variable game holds the LobbyState                     *)

LobbyActionPlayers == LobbyPlayerIds \cup {LobbyStranger}

\* LobbyAction
LobbyPlayerActions ==
    [type : {"PlayerArrived", "PlayerReady", "PlayerUnready", "PlayerDisconnected"},
     player_id : LobbyActionPlayers]
CountdownTickAction == [type |-> "CountdownTick"]
StartGameAction == [type |-> "StartGame", game_id |-> TheGameId]
LobbyActions == LobbyPlayerActions \cup {CountdownTickAction, StartGameAction}

InitLobby ==
    /\ game = LobbyState_new(TheLobbyId, [i \in 1..NumLobbyPlayers |-> i])
    /\ ServiceIdle

\* one call of LobbyState::process_action on the lobby
LobbyReduce(action) ==
    /\ game' = LobbyState_process_action(game, action).lobby
    /\ UNCHANGED <<launched, calls, sleeping, notifying, done>>

PlayerArrives ==
    \E p \in LobbyActionPlayers : LobbyReduce([type |-> "PlayerArrived", player_id |-> p])
PlayerReadies ==
    \E p \in LobbyActionPlayers : LobbyReduce([type |-> "PlayerReady", player_id |-> p])
PlayerUnreadies ==
    \E p \in LobbyActionPlayers : LobbyReduce([type |-> "PlayerUnready", player_id |-> p])
PlayerDisconnects ==
    \E p \in LobbyActionPlayers : LobbyReduce([type |-> "PlayerDisconnected", player_id |-> p])
LobbyCountdownTick == LobbyReduce(CountdownTickAction)
LobbyStartGame == LobbyReduce(StartGameAction)

NextLobby ==
    \/ PlayerArrives
    \/ PlayerReadies
    \/ PlayerUnreadies
    \/ PlayerDisconnects
    \/ LobbyCountdownTick
    \/ LobbyStartGame

SpecLobby == InitLobby /\ [][NextLobby]_vars

----------------------------------------------------------------------------
(* Claims about the lobby, checked under SpecLobby *)

\* every outcome LobbyState::process_action can have in the current state
LobbyOutcomes ==
    {[action |-> a, res |-> LobbyState_process_action(game, a)] : a \in LobbyActions}

\* S is a subset of the elements of the Vec s
WithinVec(S, s) == \A p \in S : Contains(s, p)

\* C23: after any sequence of lobby actions ready_players is a subset of arrived_players
\* and arrived_players a subset of expected_players; PlayerArrived of a player that is not
\* in expected_players changes nothing and emits no effect.
C23_ReadyArrivedExpected ==
    /\ game.ready_players \subseteq game.arrived_players
    /\ WithinVec(game.arrived_players, game.expected_players)
    /\ \A o \in LobbyOutcomes :
            /\ o.res.lobby.ready_players \subseteq o.res.lobby.arrived_players
            /\ WithinVec(o.res.lobby.arrived_players, o.res.lobby.expected_players)
            /\ (o.action.type = "PlayerArrived"
                /\ ~Contains(game.expected_players, o.action.player_id))
                    => (o.res.lobby = game /\ o.res.effects = <<>>)

\* some but not all expected players have arrived, and some but not all of those are ready
C23_Witness ==
    /\ game.ready_players # {}
    /\ game.ready_players # game.arrived_players
    /\ Cardinality(game.arrived_players) < Len(game.expected_players)

\* the effects of the given kind among effects
EffectsOfKind(effects, kind) == SelectSeq(effects, LAMBDA e : e.kind = kind)

\* C24: PlayerReady(pid) has an effect only when pid has arrived and the phase is
\* WaitingForReady. When it makes every arrived player ready the lobby moves to
\* CountingDown{10}, broadcasts CountdownStarted{10} and emits exactly one
\* ScheduleCountdownTick{1}; when an arrived player is still not ready the phase stays
\* WaitingForReady and nothing is scheduled.
C24_ReadyStartsCountdown ==
    \A o \in LobbyOutcomes :
        o.action.type = "PlayerReady" =>
            LET pid == o.action.player_id
                scheduled == EffectsOfKind(o.res.effects, "ScheduleCountdownTick")
            IN  IF pid \in game.arrived_players /\ game.phase = WaitingForReady
                THEN /\ o.res.lobby.ready_players = game.ready_players \cup {pid}
                     /\ o.res.lobby.arrived_players = game.arrived_players
                     /\ Contains(o.res.effects,
                                 Broadcast([type |-> "PlayerReady", player_id |-> pid]))
                     /\ IF game.arrived_players \subseteq game.ready_players \cup {pid}
                        THEN /\ o.res.lobby.phase = CountingDown(10)
                             /\ Contains(o.res.effects,
                                         Broadcast([type |-> "CountdownStarted",
                                                    seconds |-> 10]))
                             /\ scheduled = <<ScheduleCountdownTick(1)>>
                        ELSE /\ o.res.lobby.phase = WaitingForReady
                             /\ scheduled = <<>>
                             /\ EffectsOfKind(o.res.effects, "CreateGame") = <<>>
                ELSE o.res.lobby = game /\ o.res.effects = <<>>

\* a lobby in WaitingForReady where every expected player arrived and all but one are
\* ready: PlayerReady of the last starts the countdown, PlayerReady of another does not
C24_Witness ==
    /\ game.phase = WaitingForReady
    /\ Cardinality(game.arrived_players) = NumLobbyPlayers
    /\ Cardinality(game.ready_players) = NumLobbyPlayers - 1

\* the lobby after PlayerReady(p) followed immediately by PlayerUnready(p)
ReadyThenUnready(l, p) ==
    LobbyState_process_action(
        LobbyState_process_action(l, [type |-> "PlayerReady", player_id |-> p]).lobby,
        [type |-> "PlayerUnready", player_id |-> p]).lobby

\* PlayerUnready(p) of a ready player removes p from ready_players and, if a countdown
\* was in progress, returns the lobby to WaitingForReady with a CountdownCancelled
\* broadcast
UnreadyOfReadyPlayer ==
    \A o \in LobbyOutcomes :
        (o.action.type = "PlayerUnready" /\ o.action.player_id \in game.ready_players) =>
            /\ o.res.lobby.ready_players = game.ready_players \ {o.action.player_id}
            /\ o.res.lobby.arrived_players = game.arrived_players
            /\ IF game.phase.kind = "CountingDown"
               THEN /\ o.res.lobby.phase = WaitingForReady
                    /\ Contains(o.res.effects, Broadcast([type |-> "CountdownCancelled"]))
               ELSE /\ o.res.lobby.phase = game.phase
                    /\ ~Contains(o.res.effects, Broadcast([type |-> "CountdownCancelled"]))

\* C25 as stated: PlayerUnready of a ready player removes it and cancels a countdown in
\* progress, and PlayerReady(p) followed immediately by PlayerUnready(p) leaves the lobby
\* in WaitingForReady with ready_players as it was before the pair; the pair is taken
\* where PlayerReady acts, in WaitingForReady by any arrived p, ready or not.
C25_ReadyUnreadyRestoresAlways ==
    /\ UnreadyOfReadyPlayer
    /\ game.phase = WaitingForReady =>
            \A p \in game.arrived_players :
                LET l == ReadyThenUnready(game, p)
                IN  l.phase = WaitingForReady /\ l.ready_players = game.ready_players

\* C25 amended: the same, the pair being taken in a lobby in WaitingForReady by a player
\* p that is not ready; the pair then leaves the whole lobby as it was.
C25_ReadyUnreadyRestores ==
    /\ UnreadyOfReadyPlayer
    /\ game.phase = WaitingForReady =>
            \A p \in LobbyActionPlayers \ game.ready_players :
                LET l == ReadyThenUnready(game, p)
                IN  /\ l.phase = WaitingForReady
                    /\ l.ready_players = game.ready_players
                    /\ l = game

\* a lobby in WaitingForReady where the PlayerReady of the one arrived player that is not
\* ready starts the countdown its PlayerUnready then cancels
C25_Witness ==
    /\ game.phase = WaitingForReady
    /\ game.ready_players # {}
    /\ \E p \in game.arrived_players : game.arrived_players \ game.ready_players = {p}

\* the lobby after k consecutive CountdownTicks
RECURSIVE AfterTicks(_, _)
AfterTicks(l, k) ==
    IF k = 0 THEN l
    ELSE LobbyState_process_action(AfterTicks(l, k - 1), CountdownTickAction).lobby

\* the elements of the Vec s
Elements(s) == {s[i] : i \in 1..Len(s)}

\* the CountdownTick applied to lobby l lowers remaining_seconds to remaining, broadcasts
\* it and schedules exactly one further tick
TickCountsDownTo(l, remaining) ==
    LET r == LobbyState_process_action(l, CountdownTickAction)
    IN  /\ r.lobby = [l EXCEPT !.phase = CountingDown(remaining)]
        /\ Contains(r.effects,
                    Broadcast([type |-> "CountdownTick", remaining_seconds |-> remaining]))
        /\ EffectsOfKind(r.effects, "ScheduleCountdownTick") = <<ScheduleCountdownTick(1)>>
        /\ EffectsOfKind(r.effects, "CreateGame") = <<>>

\* the CountdownTick applied to lobby l emits one CreateGame for the lobby and its arrived
\* players, and schedules no further tick
TickCreatesGame(l) ==
    LET r == LobbyState_process_action(l, CountdownTickAction)
        created == EffectsOfKind(r.effects, "CreateGame")
    IN  /\ Len(created) = 1
        /\ created[1].lobby_id = l.id
        /\ Elements(created[1].players) = l.arrived_players
        /\ Len(created[1].players) = Cardinality(l.arrived_players)
        /\ EffectsOfKind(r.effects, "ScheduleCountdownTick") = <<>>

\* C26: from CountingDown{10} each of the first nine CountdownTicks lowers
\* remaining_seconds by 1, broadcasts CountdownTick with the new value and emits exactly
\* one ScheduleCountdownTick{1} and no CreateGame; the tenth, at remaining_seconds = 1,
\* emits exactly one CreateGame{lobby_id, arrived players} and no ScheduleCountdownTick;
\* a CountdownTick in any phase other than CountingDown does nothing.
C26_CountdownRunsToCreateGame ==
    /\ game.phase = CountingDown(10) =>
            /\ \A k \in 1..9 : TickCountsDownTo(AfterTicks(game, k - 1), 10 - k)
            /\ AfterTicks(game, 9).phase = CountingDown(1)
            /\ TickCreatesGame(AfterTicks(game, 9))
    /\ (game.phase.kind = "CountingDown" /\ game.phase.remaining_seconds > 1) =>
            TickCountsDownTo(game, game.phase.remaining_seconds - 1)
    /\ game.phase = CountingDown(1) => TickCreatesGame(game)
    /\ game.phase.kind # "CountingDown" =>
            LobbyState_process_action(game, CountdownTickAction)
                = [lobby |-> game, effects |-> <<>>]

\* nine CountdownTicks have run and a player left during the countdown
C26_Witness ==
    /\ game.phase = CountingDown(1)
    /\ game.arrived_players # {}
    /\ game.arrived_players # Elements(game.expected_players)

\* C27: PlayerDisconnected(pid) removes pid from arrived_players and ready_players; the
\* lobby becomes Cancelled, with a LobbyCancelled broadcast, exactly when arrived_players
\* is empty afterwards; otherwise the phase, a countdown in progress and its
\* remaining_seconds included, is unchanged.
C27_DisconnectCancelsEmptyLobby ==
    \A o \in LobbyOutcomes :
        o.action.type = "PlayerDisconnected" =>
            LET pid == o.action.player_id
                cancelled == Broadcast([type |-> "LobbyCancelled"])
            IN  /\ o.res.lobby.arrived_players = game.arrived_players \ {pid}
                /\ o.res.lobby.ready_players = game.ready_players \ {pid}
                /\ IF o.res.lobby.arrived_players = {}
                   THEN o.res.lobby.phase = Cancelled /\ Contains(o.res.effects, cancelled)
                   ELSE o.res.lobby.phase = game.phase /\ ~Contains(o.res.effects, cancelled)

\* a countdown under way with two arrived players: the disconnect of one lets it run
\* on, the disconnect of the other after it cancels the lobby
C27_Witness ==
    /\ game.phase.kind = "CountingDown"
    /\ game.phase.remaining_seconds < 10
    /\ Cardinality(game.arrived_players) = 2

----------------------------------------------------------------------------
(* Matchmaking queue: domain/src/queue.rs                                   *)
(* An arm of handle_command is an operator from the MatchmakingQueue (and   *)
(* the command's player) to the record [queue, outcome]: queue is the       *)
(* MatchmakingQueue the &mut self is left in.                               *)

MaxCommands == 5
DefaultPlayersToStart == 2

\* MatchmakingOutcome
Matched(players) == [type |-> "Matched", players |-> players]
Enqueued(player_id) == [type |-> "Enqueued", player_id |-> player_id]
Dequeued(player_id) == [type |-> "Dequeued", player_id |-> player_id]
Outcome_PlayerNotFound == [type |-> "PlayerNotFound"]
AlreadyQueued == [type |-> "AlreadyQueued"]

\* MatchmakingConfig::default
MatchmakingConfig_default == [players_to_start |-> DefaultPlayersToStart]

\* MatchmakingQueue::new
MatchmakingQueue_new == [queue |-> <<>>, config |-> MatchmakingConfig_default]

\* the PlayerJoin arm without the contains check
PlayerJoin_unchecked(q, player_id) ==
    [queue |-> [q EXCEPT !.queue = Append(@, player_id)], outcome |-> Enqueued(player_id)]

\* handle_command, arm MatchmakingCommand::PlayerJoin
PlayerJoin(q, player_id) ==
    IF Contains(q.queue, player_id)
    THEN [queue |-> q, outcome |-> AlreadyQueued]
    ELSE [queue |-> [q EXCEPT !.queue = Append(@, player_id)],
          outcome |-> Enqueued(player_id)]

\* the PlayerLeave arm with Vec::swap_remove: the last entry takes the freed place
PlayerLeave_swap_remove(q, player_id) ==
    LET pos == Position(q.queue, player_id)
        n == Len(q.queue)
    IN  IF pos # 0
        THEN [queue |-> [q EXCEPT !.queue =
                            SubSeq([q.queue EXCEPT ![pos] = q.queue[n]], 1, n - 1)],
              outcome |-> Dequeued(player_id)]
        ELSE [queue |-> q, outcome |-> Outcome_PlayerNotFound]

\* handle_command, arm MatchmakingCommand::PlayerLeave
PlayerLeave(q, player_id) ==
    LET pos == Position(q.queue, player_id)
    IN  IF pos # 0
        THEN [queue |-> [q EXCEPT !.queue = RemoveAt(@, pos)],
              outcome |-> Dequeued(player_id)]
        ELSE [queue |-> q, outcome |-> Outcome_PlayerNotFound]

\* the TryMatchmake arm taking the two entries from the back of the queue
TryMatchmake_from_back(q) ==
    IF Len(q.queue) >= q.config.players_to_start
    THEN LET n == Len(q.queue)
         IN  [queue |-> [q EXCEPT !.queue = SubSeq(@, 1, n - 2)],
              outcome |-> Matched(<<q.queue[n], q.queue[n - 1]>>)]
    ELSE [queue |-> q, outcome |-> Matched(<<>>)]

\* handle_command, arm MatchmakingCommand::TryMatchmake: remove(0) twice
TryMatchmake(q) ==
    IF Len(q.queue) >= q.config.players_to_start
    THEN LET first == q.queue[1]
             q1 == RemoveAt(q.queue, 1)
             second == q1[1]
             q2 == RemoveAt(q1, 1)
         IN  [queue |-> [q EXCEPT !.queue = q2], outcome |-> Matched(<<first, second>>)]
    ELSE [queue |-> q, outcome |-> Matched(<<>>)]

\* MatchmakingQueue::handle_command
handle_command(q, command) ==
    CASE command.type = "PlayerJoin" -> PlayerJoin(q, command.player_id)
      [] command.type = "PlayerLeave" -> PlayerLeave(q, command.player_id)
      [] command.type = "TryMatchmake" -> TryMatchmake(q)

----------------------------------------------------------------------------
(* Specification SpecQueue: the queue driven by every sequence of at most   *)
(* MaxCommands commands; the variable game holds the MatchmakingQueue and   *)
(* the variable done the commands handled so far                           *)

\* MatchmakingCommand
JoinCommands == [type : {"PlayerJoin"}, player_id : LobbyPlayerIds]
LeaveCommands == [type : {"PlayerLeave"}, player_id : LobbyPlayerIds]
TryMatchmakeCommand == [type |-> "TryMatchmake"]
MatchmakingCommands == JoinCommands \cup LeaveCommands \cup {TryMatchmakeCommand}

InitQueue ==
    /\ game = MatchmakingQueue_new
    /\ launched = FALSE
    /\ calls = EmptyBag
    /\ sleeping = EmptyBag
    /\ notifying = EmptyBag
    /\ done = <<>>

\* one call of MatchmakingQueue::handle_command on the queue
Handle(command) ==
    /\ Len(done) < MaxCommands
    /\ game' = handle_command(game, command).queue
    /\ done' = Append(done, command)
    /\ UNCHANGED <<launched, calls, sleeping, notifying>>

Join == \E c \in JoinCommands : Handle(c)
Leave == \E c \in LeaveCommands : Handle(c)
Matchmake == Handle(TryMatchmakeCommand)

NextQueue ==
    \/ Join
    \/ Leave
    \/ Matchmake

SpecQueue == InitQueue /\ [][NextQueue]_vars

----------------------------------------------------------------------------
(* Claims about the matchmaking queue, checked under SpecQueue *)

\* every outcome handle_command can have in the current state
QueueOutcomes ==
    {[command |-> c, res |-> handle_command(game, c)] : c \in MatchmakingCommands}

\* no element occurs twice in the Vec s
NoDuplicates(s) == \A i, j \in 1..Len(s) : s[i] = s[j] => i = j

\* C28: after any sequence of PlayerJoin, PlayerLeave and TryMatchmake commands no
\* PlayerId occurs more than once in the queue; PlayerJoin of a queued player returns
\* AlreadyQueued and leaves the queue unchanged, PlayerLeave of an absent player returns
\* PlayerNotFound and leaves it unchanged.
C28_QueueHoldsEachPlayerOnce ==
    /\ NoDuplicates(game.queue)
    /\ \A o \in QueueOutcomes :
            /\ NoDuplicates(o.res.queue.queue)
            /\ (o.command.type = "PlayerJoin" /\ Contains(game.queue, o.command.player_id))
                    => (o.res.outcome = AlreadyQueued /\ o.res.queue = game)
            /\ (o.command.type = "PlayerLeave" /\ ~Contains(game.queue, o.command.player_id))
                    => (o.res.outcome = Outcome_PlayerNotFound /\ o.res.queue = game)

\* two players are queued after one of them was refused a second PlayerJoin
C28_Witness ==
    /\ Len(game.queue) = 2
    /\ \E i \in 2..Len(done) :
            /\ done[i].type = "PlayerJoin"
            /\ \E j \in 1..(i - 1) : done[j] = done[i]
            /\ \A j \in 1..Len(done) : done[j].type = "PlayerJoin"

\* C29: TryMatchmake with at least players_to_start players queued removes exactly the
\* first players_to_start entries and returns them in queue order, leaving the remaining
\* entries in their original order; with fewer players queued it returns Matched([]) and
\* leaves the queue unchanged.
C29_MatchmakeTakesFirstInOrder ==
    \A o \in QueueOutcomes :
        o.command.type = "TryMatchmake" =>
            LET n == game.config.players_to_start
            IN  IF Len(game.queue) >= n
                THEN /\ o.res.outcome = Matched(SubSeq(game.queue, 1, n))
                     /\ o.res.queue.queue = SubSeq(game.queue, n + 1, Len(game.queue))
                     /\ o.res.queue.config = game.config
                ELSE /\ o.res.outcome = Matched(<<>>)
                     /\ o.res.queue = game

\* three players are queued, not in the order of their ids: a match leaves the third
C29_Witness ==
    /\ Len(game.queue) = 3
    /\ game.queue[1] > game.queue[2]

\* the commands handled so far are PlayerJoin and PlayerLeave only
OnlyJoinsAndLeaves == \A i \in 1..Len(done) : done[i].type \in {"PlayerJoin", "PlayerLeave"}

\* command i of log is a PlayerJoin of p that no later PlayerLeave of p follows
JoinedToStay(log, p, i) ==
    /\ log[i] = [type |-> "PlayerJoin", player_id |-> p]
    /\ \A j \in (i + 1)..Len(log) : log[j] # [type |-> "PlayerLeave", player_id |-> p]

\* the players joined and not since left
Survivors(log) == {p \in LobbyPlayerIds : \E i \in 1..Len(log) : JoinedToStay(log, p, i)}

\* the command that inserted survivor p: its first PlayerJoin after its last PlayerLeave
InsertedAt(log, p) ==
    CHOOSE i \in 1..Len(log) :
        /\ JoinedToStay(log, p, i)
        /\ \A j \in 1..(i - 1) : ~JoinedToStay(log, p, j)

\* the queue holds exactly the players joined and not since left, in insertion order
QueueIsSurvivorsInOrder ==
    OnlyJoinsAndLeaves =>
        /\ Elements(game.queue) = Survivors(done)
        /\ NoDuplicates(game.queue)
        /\ \A i, j \in 1..Len(game.queue) :
                i < j => InsertedAt(done, game.queue[i]) < InsertedAt(done, game.queue[j])

\* the queue after PlayerJoin(p) followed by PlayerLeave(p)
JoinThenLeave(q, p) ==
    handle_command(handle_command(q, [type |-> "PlayerJoin", player_id |-> p]).queue,
                   [type |-> "PlayerLeave", player_id |-> p]).queue

\* C30 as stated: for any sequence of PlayerJoin and PlayerLeave commands the queue holds
\* exactly the players joined and not since left, in the insertion order of the surviving
\* members, and PlayerJoin(p) followed by PlayerLeave(p) returns the queue to its prior
\* element sequence, for every p.
C30_JoinLeaveRestoresAlways ==
    /\ QueueIsSurvivorsInOrder
    /\ \A p \in LobbyPlayerIds : JoinThenLeave(game, p).queue = game.queue

\* C30 amended: the same, the pair PlayerJoin(p), PlayerLeave(p) being taken by a player
\* p that is not in the queue.
C30_JoinLeaveRestores ==
    /\ QueueIsSurvivorsInOrder
    /\ \A p \in LobbyPlayerIds :
            ~Contains(game.queue, p) => JoinThenLeave(game, p) = game

\* a player joined, left and joined again behind a player that joined after its first
\* join, and a third player is not queued
C30_Witness ==
    /\ OnlyJoinsAndLeaves
    /\ Len(game.queue) = 2
    /\ \E i, j, k \in 1..Len(done) :
            /\ i < j /\ j < k
            /\ done[i].type = "PlayerJoin"
            /\ done[j] = [type |-> "PlayerLeave", player_id |-> done[i].player_id]
            /\ done[k] = done[i]
            /\ game.queue[2] = done[i].player_id

----------------------------------------------------------------------------
(* Claims about the market forces of the tickers *)

\* no ticker of game g holds a force whose decay strength is 0
NoSpentForce(g) ==
    \A p \in PlayerIds :
        \A i \in 1..Len(g.player_tickers[p].ticker.forces) :
            Decay_strength(g.player_tickers[p].ticker.forces[i].decay)[1] > 0

\* C31: after any game action (Bid, Ask, the cancels, Tick with and without fills) no
\* player's ticker holds a force whose decay strength is 0.
C31_NoSpentForceKept ==
    /\ NoSpentForce(game)
    /\ \A o \in Outcomes : NoSpentForce(o.res.game)

\* the linear(5) force of a placed bid has run out and left its ticker, the linear(20)
\* force placed with it is still there
C31_Witness ==
    /\ Running
    /\ \E p \in PlayerIds :
            LET forces == game.player_tickers[p].ticker.forces
            IN  /\ \E i \in 1..Len(forces) :
                        forces[i].decay.initial = 20 /\ forces[i].decay.remaining <= 15
                /\ \A i \in 1..Len(forces) : forces[i].decay.initial # 5

\* the place of an effect in the order the claim gives for a Tick's effect vector
EffectRank(e) ==
    IF e.kind = "DelayedAction" THEN 4
    ELSE CASE e.event.type = "PriceChanged" -> 1
           [] e.event.type = "BidFilled" -> 2
           [] e.event.type = "AskFilled" -> 3
           [] OTHER -> 0

\* the notifications of event type type sent to player pid
SentTo(effects, pid, type) ==
    SelectSeq(effects, LAMBDA e : e.kind = "Notification" /\ e.player_id = pid
                                    /\ e.event.type = type)

\* the open bids, the open asks of all players of g
OpenBidCount(g) == SumSeq([i \in 1..NumPlayers |-> Len(g.players[Keys[i]].open_bids)])
OpenAskCount(g) == SumSeq([i \in 1..NumPlayers |-> Len(g.players[Keys[i]].open_asks)])

\* C32: in the effect vector of a successful Tick all PriceChanged notifications come
\* first, one for every pair of notified player and ticker owner, then all BidFilled
\* notifications, then all AskFilled notifications, one per fill per player, and the
\* single DelayedAction is the last element.
C32_TickEffectsInOrder ==
    \A o \in Outcomes :
        (o.action.type = "Tick" /\ o.res.err = NoError) =>
            LET effects == o.res.effects
                n == Len(effects)
            IN  /\ \A i \in 1..n : EffectRank(effects[i]) \in 1..4
                /\ \A i, j \in 1..n : i < j => EffectRank(effects[i]) <= EffectRank(effects[j])
                /\ n >= 1 /\ effects[n].kind = "DelayedAction"
                /\ Len(DelayedActionsOf(effects)) = 1
                /\ \A pid \in PlayerIds :
                        /\ \A owner \in PlayerIds :
                                Len(SelectSeq(SentTo(effects, pid, "PriceChanged"),
                                              LAMBDA e : e.event.player_id = owner)) = 1
                        /\ Len(SentTo(effects, pid, "PriceChanged")) = NumPlayers
                        /\ Len(SentTo(effects, pid, "BidFilled"))
                                = OpenBidCount(game) - OpenBidCount(o.res.game)
                        /\ Len(SentTo(effects, pid, "AskFilled"))
                                = OpenAskCount(game) - OpenAskCount(o.res.game)

\* a Running game with a Tick left, one draw of which fills a bid and an ask
C32_Witness ==
    /\ Running
    /\ \E o \in Outcomes :
            /\ o.action.type = "Tick" /\ o.res.err = NoError
            /\ \E i, j \in 1..Len(o.res.effects) :
                    /\ EffectRank(o.res.effects[i]) = 2
                    /\ EffectRank(o.res.effects[j]) = 3

\* C33: a successful CancelBid or CancelAsk changes only the canceller's own list of
\* open orders of that kind: the cash and the shares of every player, the open orders
\* of every other player, the canceller's orders of the other kind, the price and the
\* forces of every ticker, ticks_remaining and the phase are unchanged.
C33_CancelTouchesOnlyOwnOrders ==
    \A o \in Outcomes :
        (o.action.type \in {"CancelBid", "CancelAsk"} /\ o.res.err = NoError) =>
            LET now == o.res.game
            IN  /\ now.phase = game.phase
                /\ now.ticks_remaining = game.ticks_remaining
                /\ now.player_tickers = game.player_tickers
                /\ DOMAIN now.players = DOMAIN game.players
                /\ \A p \in PlayerIds :
                        /\ now.players[p].cash = game.players[p].cash
                        /\ now.players[p].shares = game.players[p].shares
                        /\ (p # o.action.player_id \/ o.action.type # "CancelBid")
                                => now.players[p].open_bids = game.players[p].open_bids
                        /\ (p # o.action.player_id \/ o.action.type # "CancelAsk")
                                => now.players[p].open_asks = game.players[p].open_asks
                /\ now # game

\* a Running game with forces on the tickers where a player who holds an open bid and
\* an open ask can cancel the ask
C33_Witness ==
    /\ Running
    /\ \E p \in PlayerIds :
            /\ Len(game.player_tickers[p].ticker.forces) > 0
            /\ Len(game.players[p].open_bids) > 0
            /\ \E o \in Outcomes :
                    /\ o.action.type = "CancelAsk" /\ o.action.player_id = p
                    /\ o.res.err = NoError

\* ---- one PlayerTicker ticked on its own, with one linear force at a time ----

MaxLinear == 4         \* the longest linear decay added, in ticks
MaxTickerTicks == 7    \* the ticks of a run
TickerStartPrice == 8  \* high enough for no price of a run to be clamped at 0

\* game holds the ticker, the length n of the linear force added last (0: none yet),
\* the ticks k since it was added, and what the forces added to the last draw
InitTicker ==
    /\ game = [pt |-> PlayerTicker_new(1, TickerStartPrice), n |-> 0, k |-> 0,
               ticks |-> 0, contribution |-> 0]
    /\ ServiceIdle

\* Ticker::add_force with a linear(n) decay, pressure n and no volatility, between ticks
AddLinearForce ==
    \E n \in 1..MaxLinear :
        /\ game.pt.ticker.forces = <<>>
        /\ game.ticks < MaxTickerTicks
        /\ game' = [game EXCEPT !.pt.ticker = add_force(@, <<n, 1>>, <<0, 1>>, Decay_linear(n)),
                                !.n = n, !.k = 0]
        /\ UNCHANGED <<launched, calls, sleeping, notifying, done>>

\* PlayerTicker::tick; draw is the value gen_range returns
TickerTick ==
    \E draw \in Draws(Ticker_tick(game.pt.ticker)) :
        \E pt \in {PlayerTicker_tick(game.pt, draw)} :
            /\ game.ticks < MaxTickerTicks
            /\ game' = [game EXCEPT !.pt = pt, !.k = @ + 1, !.ticks = @ + 1,
                                    !.contribution =
                                        pt.current_price - game.pt.current_price - draw]
            /\ UNCHANGED <<launched, calls, sleeping, notifying, done>>

NextTicker ==
    \/ AddLinearForce
    \/ TickerTick

SpecTicker == InitTicker /\ [][NextTicker]_vars

\* C34: PlayerTicker::tick ages and prunes the forces before it draws: a linear(n)
\* force added between ticks takes part in the k-th following draw with strength
\* (n-k)/n for k = 1..n-1, is removed in the n-th tick without taking part in its
\* draw, and never takes part at strength 1. (The force has pressure n on a ticker of
\* base volatility 1, so strength (n-k)/n moves the delta of the draw by n-k.)
C34_AgedBeforeDraw ==
    (game.n > 0 /\ game.k >= 1) =>
        LET forces == game.pt.ticker.forces
        IN  /\ game.contribution # game.n
            /\ game.k < game.n =>
                    /\ game.contribution = game.n - game.k
                    /\ Len(forces) = 1
                    /\ Decay_strength(forces[1].decay) = NormQ(<<game.n - game.k, game.n>>)
            /\ game.k >= game.n =>
                    /\ game.contribution = 0
                    /\ forces = <<>>

\* the tick that removes a linear(MaxLinear) force, after its next to last draw moved
\* the price
C34_Witness ==
    /\ game.n = MaxLinear /\ game.k = MaxLinear
    /\ game.pt.ticker.forces = <<>>
    /\ game.contribution = 0
    /\ game.pt.current_price > TickerStartPrice

\* C35: in every reachable state every player has at most as many open asks as
\* shares, so the fill of an ask always finds a share to remove: over a Tick a player's
\* shares grow by the bids filled and shrink by the asks filled, one share each.
C35_AsksCoveredByShares ==
    /\ \A p \in PlayerIds : Len(game.players[p].open_asks) <= Len(game.players[p].shares)
    /\ \A o \in Outcomes :
            (o.action.type = "Tick" /\ o.res.err = NoError) =>
                \A p \in PlayerIds :
                    LET was == game.players[p]
                        now == o.res.game.players[p]
                    IN  /\ Len(now.open_asks) <= Len(now.shares)
                        /\ Len(now.shares) - Len(was.shares)
                                = (Len(was.open_bids) - Len(now.open_bids))
                                  - (Len(was.open_asks) - Len(now.open_asks))

\* a player whose every share is committed to an open ask, one of which a Tick fills
C35_Witness ==
    /\ Running
    /\ \E p \in PlayerIds :
            /\ Len(game.players[p].shares) >= 1
            /\ Len(game.players[p].open_asks) = Len(game.players[p].shares)
            /\ \E o \in Outcomes :
                    /\ o.action.type = "Tick" /\ o.res.err = NoError
                    /\ Len(o.res.game.players[p].open_asks) < Len(game.players[p].open_asks)

\* C36: a Bid or an Ask whose player_id is not a player of the game is rejected with an
\* error and changes nothing: no force is added to a ticker and no BidPlaced or
\* AskPlaced notification is emitted, whatever the value of the order.
C36_StrangerOrderRejected ==
    \A o \in Outcomes :
        (o.action.type \in {"Bid", "Ask"} /\ o.action.player_id \notin PlayerIds) =>
            /\ o.res.err # NoError
            /\ o.res.game = game
            /\ o.res.effects = <<>>

\* the half of C36 about asks: the ask of a stranger is rejected in every phase
C36_StrangerAskRejected ==
    \A o \in Outcomes :
        (o.action.type = "Ask" /\ o.action.player_id \notin PlayerIds) =>
            /\ o.res.err # NoError
            /\ o.res.game = game
            /\ o.res.effects = <<>>

\* ---- one lobby whose ScheduleCountdownTick effects are each delivered once, later ----

MaxPendingTicks == 3   \* the scheduled ticks outstanding at a time
MaxCreated == 2        \* the CreateGame effects counted
NumTimerPlayers == 2   \* the expected players of the lobby

TimerPlayerIds == 1..NumTimerPlayers

\* game holds the lobby, the scheduled ticks not yet delivered, the ticks delivered
\* since the countdown last started, and the CreateGame effects emitted so far
InitLobbyTimer ==
    /\ game = [lobby |-> LobbyState_new(TheLobbyId, [i \in 1..NumTimerPlayers |-> i]),
               pending |-> 0, since |-> 0, created |-> 0]
    /\ ServiceIdle

\* what a call of LobbyState::process_action leaves behind: every
\* ScheduleCountdownTick of its effects becomes one tick to deliver
AfterLobbyAction(g, action, delivered) ==
    LET r == LobbyState_process_action(g.lobby, action)
        scheduled == Len(EffectsOfKind(r.effects, "ScheduleCountdownTick"))
        started == \E i \in 1..Len(r.effects) :
                        /\ r.effects[i].kind = "Broadcast"
                        /\ r.effects[i].event.type = "CountdownStarted"
    IN  [lobby |-> r.lobby,
         pending |-> g.pending - delivered + scheduled,
         since |-> IF started THEN 0 ELSE g.since + delivered,
         created |-> g.created + Len(EffectsOfKind(r.effects, "CreateGame"))]

TimerReduce(action, delivered) ==
    \E g \in {AfterLobbyAction(game, action, delivered)} :
        /\ g.pending <= MaxPendingTicks
        /\ g.created <= MaxCreated
        /\ game' = g
        /\ UNCHANGED <<launched, calls, sleeping, notifying, done>>

TimerPlayerArrives ==
    \E p \in TimerPlayerIds : TimerReduce([type |-> "PlayerArrived", player_id |-> p], 0)
TimerPlayerReadies ==
    \E p \in TimerPlayerIds : TimerReduce([type |-> "PlayerReady", player_id |-> p], 0)
TimerPlayerUnreadies ==
    \E p \in TimerPlayerIds : TimerReduce([type |-> "PlayerUnready", player_id |-> p], 0)
TimerPlayerDisconnects ==
    \E p \in TimerPlayerIds : TimerReduce([type |-> "PlayerDisconnected", player_id |-> p], 0)

\* a scheduled tick fires: LobbyService::countdown_tick
TimerDeliversTick ==
    /\ game.pending > 0
    /\ TimerReduce(CountdownTickAction, 1)

\* LobbyService::finalize_game_start, called once a game was created
TimerStartGame ==
    /\ game.created > 0
    /\ TimerReduce(StartGameAction, 0)

NextLobbyTimer ==
    \/ TimerPlayerArrives
    \/ TimerPlayerReadies
    \/ TimerPlayerUnreadies
    \/ TimerPlayerDisconnects
    \/ TimerDeliversTick
    \/ TimerStartGame

SpecLobbyTimer == InitLobbyTimer /\ [][NextLobbyTimer]_vars

\* C37: when every ScheduleCountdownTick becomes one later CountdownTick, at most one
\* tick of a lobby is outstanding at any time, also when PlayerUnready cancels a
\* countdown and PlayerReady restarts it before the tick scheduled earlier has fired;
\* so the tick that emits CreateGame is the tenth since the countdown started.
C37_OneTickOutstanding ==
    /\ game.pending <= 1
    /\ (game.pending > 0 /\ game.created = 0) =>
            LET g == AfterLobbyAction(game, CountdownTickAction, 1)
            IN  g.created > 0 => g.since = CountdownSeconds

\* the first half of C37 alone: at most one tick outstanding
C37_PendingAtMostOne == game.pending <= 1

\* the second half of C37 alone: the first CreateGame comes with the tenth tick
\* delivered since the countdown last started
C37_TenTicksBeforeCreateGame ==
    (game.pending > 0 /\ game.created = 0) =>
        LET g == AfterLobbyAction(game, CountdownTickAction, 1)
        IN  g.created > 0 => g.since = CountdownSeconds

\* two ticks outstanding in a countdown that was cancelled and started again
C37_TwoTicksOutstanding ==
    /\ game.pending = 2
    /\ game.lobby.phase = CountingDown(CountdownSeconds)
    /\ game.since = 0

\* C38: over any sequence of lobby actions a lobby emits CreateGame at most once:
\* after the CountdownTick that emitted it no further CountdownTick, before or after
\* StartGame, emits another.
C38_CreateGameAtMostOnce == game.created <= 1

\* the part of C38 after StartGame: no CountdownTick of a started lobby emits CreateGame
C38_NoCreateGameOnceStarted ==
    game.lobby.phase.kind = "GameStarted" =>
        EffectsOfKind(LobbyState_process_action(game.lobby, CountdownTickAction).effects,
                      "CreateGame") = <<>>

\* C39: the phases GameStarted and Cancelled are terminal: no action on a lobby in
\* either of them changes the phase.
C39_StartedAndCancelledTerminal ==
    game.phase.kind \in {"GameStarted", "Cancelled"} =>
        \A o \in LobbyOutcomes : o.res.lobby.phase = game.phase

\* the part of C39 that holds: the player actions and CountdownTick leave a Cancelled
\* lobby Cancelled, and PlayerArrived, PlayerReady, PlayerUnready and CountdownTick
\* leave a started lobby as it is
C39_TerminalButForStartAndDisconnect ==
    /\ game.phase = Cancelled =>
            \A o \in LobbyOutcomes :
                o.action.type # "StartGame" => o.res.lobby.phase = game.phase
    /\ game.phase.kind = "GameStarted" =>
            \A o \in LobbyOutcomes :
                o.action.type \notin {"StartGame", "PlayerDisconnected"}
                    => o.res.lobby.phase = game.phase

\* ---- MatchmakingService over the queue held by the repository, one call at a time ----

NumMatchPlayers == 4   \* the players that call the service

MatchPlayerIds == 1..NumMatchPlayers

\* game holds the queue of the repository, the players whose remove_player returned
\* Dequeued and who have not called join_queue since, and the last call with the
\* outcome it returned and the broadcasts it made
InitMatchmaking ==
    /\ game = [repo |-> MatchmakingQueue_new, left |-> {},
               returned |-> [op |-> "none", player_id |-> 0,
                             outcome |-> Outcome_PlayerNotFound, broadcasts |-> <<>>]]
    /\ ServiceIdle

\* QueueNotifier::broadcast
QueueBroadcast(players, event) == [players |-> players, event |-> event]

\* MatchmakingService::join_queue: load, PlayerJoin, TryMatchmake, save
join_queue(g, player_id) ==
    LET joined == handle_command(g.repo, [type |-> "PlayerJoin", player_id |-> player_id])
        event == joined.outcome
        players_before_matchmaking == joined.queue.queue
        tried == handle_command(joined.queue, TryMatchmakeCommand)
        is_match == tried.outcome.type = "Matched" /\ tried.outcome.players # <<>>
    IN  [repo |-> tried.queue,
         left |-> g.left \ {player_id},
         returned |->
            [op |-> "join_queue", player_id |-> player_id,
             outcome |-> IF is_match THEN tried.outcome ELSE event,
             broadcasts |->
                <<QueueBroadcast(players_before_matchmaking, event)>>
                \o (IF is_match
                    THEN <<QueueBroadcast(players_before_matchmaking, tried.outcome)>>
                    ELSE <<>>)]]

\* remove_player that saves the queue it changed
remove_player_saving(g, player_id) ==
    LET r == handle_command(g.repo, [type |-> "PlayerLeave", player_id |-> player_id])
    IN  [repo |-> r.queue,
         left |-> IF r.outcome = Dequeued(player_id) THEN g.left \cup {player_id} ELSE g.left,
         returned |-> [op |-> "remove_player", player_id |-> player_id,
                       outcome |-> r.outcome,
                       broadcasts |-> <<QueueBroadcast(r.queue.queue, r.outcome)>>]]

\* MatchmakingService::remove_player: load, PlayerLeave, broadcast; the queue it
\* loaded and changed is dropped, the repository keeps the one it held
remove_player(g, player_id) ==
    LET r == handle_command(g.repo, [type |-> "PlayerLeave", player_id |-> player_id])
    IN  [repo |-> g.repo,
         left |-> IF r.outcome = Dequeued(player_id) THEN g.left \cup {player_id} ELSE g.left,
         returned |-> [op |-> "remove_player", player_id |-> player_id,
                       outcome |-> r.outcome,
                       broadcasts |-> <<QueueBroadcast(r.queue.queue, r.outcome)>>]]

JoinQueue ==
    \E p \in MatchPlayerIds :
        /\ game' = join_queue(game, p)
        /\ UNCHANGED <<launched, calls, sleeping, notifying, done>>

RemovePlayer ==
    \E p \in MatchPlayerIds :
        /\ game' = remove_player(game, p)
        /\ UNCHANGED <<launched, calls, sleeping, notifying, done>>

NextMatchmaking ==
    \/ JoinQueue
    \/ RemovePlayer

SpecMatchmaking == InitMatchmaking /\ [][NextMatchmaking]_vars

\* C40: after remove_player(p) returned Dequeued(p), p is absent from the queue of the
\* repository, and a later join_queue of another player returns no Matched outcome
\* that contains p, unless p joined again.
C40_RemovedPlayerNotMatched ==
    /\ \A p \in game.left : ~Contains(game.repo.queue, p)
    /\ (game.returned.op = "join_queue" /\ game.returned.outcome.type = "Matched") =>
            \A p \in game.left : ~Contains(game.returned.outcome.players, p)

\* a removed player matched by the join_queue of another player
C40_RemovedPlayerMatched ==
    /\ game.returned.op = "join_queue"
    /\ game.returned.outcome.type = "Matched"
    /\ \E p \in game.left :
            /\ p # game.returned.player_id
            /\ Contains(game.returned.outcome.players, p)

====
